---- MODULE Spec2Model ----
(***************************************************************************)
(* BinPack container codec, PackManager editor and PKDPX codec of          *)
(* pack-test, as a state machine.  Byte strings are sequences of integers  *)
(* 0..255; a Python offset o is position o + 1 of the sequence.            *)
(***************************************************************************)
EXTENDS Integers, Sequences, FiniteSets, TLC

(***************************************************************************)
(* Python built-ins the code relies on.                                    *)
(***************************************************************************)
Min(a, b) == IF a <= b THEN a ELSE b

Max(a, b) == IF a >= b THEN a ELSE b

\* data[lo:hi] for 0 <= lo: both ends are clamped to len(data), never raises.
Slice(data, lo, hi) == SubSeq(data, Min(lo, Len(data)) + 1, Min(hi, Len(data)))

\* data[lo:hi] = new on a bytearray: the clamped slice is replaced by new,
\* so the buffer grows when the slice reaches past its end.
SetSlice(data, lo, hi, new) ==
    Slice(data, 0, lo) \o new \o Slice(data, Max(lo, hi), Len(data))

\* Integers of the model stay below 2^31: a decoded value from 2^30 up is
\* folded to one that is still >= 2^30 and has the same low byte.  The code
\* only compares such values with buffer lengths and small constants.
IntFold == 4194304

RECURSIVE from_bytes(_)
\* int.from_bytes(bs, "little")
from_bytes(bs) ==
    IF bs = <<>> THEN 0
    ELSE Head(bs) + 256 * Min(from_bytes(Tail(bs)), IntFold)

\* value.to_bytes(n, "little"); the caller checks value < 256^n
to_bytes_le(value, n) == [k \in 1..n |-> (value \div (256 ^ (k - 1))) % 256]

\* bytes([b]) * n
Fill(b, n) == [k \in 1..n |-> b]

(***************************************************************************)
(* bin_pack/model.py                                                       *)
(***************************************************************************)
ALIGNMENT == 16

HEADER_SIZE == 8

TOC_ENTRY_SIZE == 8

TOC_TERMINATOR_SIZE == 8

\* Optional[int] None
None == -1

read_u32(data, offset) == from_bytes(Slice(data, offset, offset + 4))

write_u32(data, value, offset) ==
    SetSlice(data, offset, offset + 4, to_bytes_le(value, 4))

align_up(value) == ((value + ALIGNMENT - 1) \div ALIGNMENT) * ALIGNMENT

\* BinPack(): no files, no recorded header length
EmptyPack == [files |-> <<>>, header_len |-> None]

\* BinPack._parse
Parse(data) ==
    LET num_files == read_u32(data, 4)
        file(i) ==
            LET toc_offset == HEADER_SIZE + i * TOC_ENTRY_SIZE
                file_ptr == read_u32(data, toc_offset)
                file_len == read_u32(data, toc_offset + 4)
            IN  Slice(data, file_ptr, file_ptr + file_len)
    IN  [files |-> [k \in 1..num_files |-> file(k - 1)],
         header_len |-> IF num_files > 0 THEN read_u32(data, HEADER_SIZE)
                        ELSE None]

\* a faulty _calculate_header_length: the header length recorded on
\* parse is ignored
calculate_header_length_min(p) ==
    align_up(HEADER_SIZE + Len(p.files) * TOC_ENTRY_SIZE + TOC_TERMINATOR_SIZE)

\* BinPack._calculate_header_length
calculate_header_length(p) ==
    LET min_len == align_up(HEADER_SIZE + Len(p.files) * TOC_ENTRY_SIZE
                            + TOC_TERMINATOR_SIZE)
    IN  IF p.header_len # None /\ p.header_len >= min_len
        THEN p.header_len ELSE min_len

RECURSIVE SumAligned(_)
SumAligned(files) ==
    IF files = <<>> THEN 0
    ELSE align_up(Len(Head(files))) + SumAligned(Tail(files))

\* a faulty _calculate_total_size: the header is left out of the total
calculate_total_size_noheader(p, header_len) == SumAligned(p.files)

\* BinPack._calculate_total_size
calculate_total_size(p, header_len) == header_len + SumAligned(p.files)

\* BinPack.validate: TRUE when it raises ValueError
\* a faulty validate: the entries are not looked at
validate_raises_count(p) == Len(p.files) = 0

\* BinPack.validate: TRUE when it raises ValueError
validate_raises(p) ==
    \/ Len(p.files) = 0
    \/ \E i \in 1..Len(p.files) : Len(p.files[i]) = 0

RECURSIVE WriteFiles(_, _, _, _)
\* the loop of to_bytes over self._files, from entry i on
WriteFiles(files, out, data_cursor, toc_cursor) ==
    IF files = <<>> THEN [out |-> out, toc_cursor |-> toc_cursor]
    ELSE LET file_data == Head(files)
             o1 == write_u32(out, data_cursor, toc_cursor)
             o2 == write_u32(o1, Len(file_data), toc_cursor + 4)
             o3 == SetSlice(o2, data_cursor, data_cursor + Len(file_data),
                            file_data)
         IN  WriteFiles(Tail(files), o3,
                        align_up(data_cursor + Len(file_data)),
                        toc_cursor + TOC_ENTRY_SIZE)

\* BinPack.to_bytes; the result is [ok |-> FALSE, ...] when it raises
to_bytes(p) ==
    IF validate_raises(p) THEN [ok |-> FALSE, err |-> "ValueError", data |-> <<>>]
    ELSE LET header_len == calculate_header_length(p)
             total_size == calculate_total_size(p, header_len)
             out0 == Fill(255, total_size)
             out1 == write_u32(out0, 0, 0)
             out2 == write_u32(out1, Len(p.files), 4)
             w == WriteFiles(p.files, out2, header_len, HEADER_SIZE)
             out3 == write_u32(w.out, 0, w.toc_cursor)
             out4 == write_u32(out3, 0, w.toc_cursor + 4)
         IN  [ok |-> TRUE, err |-> "", data |-> out4]

(***************************************************************************)
(* bin_pack/file_types.py                                                  *)
(***************************************************************************)
\* b"SIR0", b"AT4PX", b"PKDPX", b"WTE\0", b"WTU\0"
MAGIC_SIR0 == <<83, 73, 82, 48>>

MAGIC_AT4PX == <<65, 84, 52, 80, 88>>

PKDPX_MAGIC == <<80, 75, 68, 80, 88>>

MAGIC_WTE == <<87, 84, 69, 0>>

MAGIC_WTU == <<87, 84, 85, 0>>

\* int.from_bytes(data[lo:hi], "little")
read_le(data, lo, hi) == from_bytes(Slice(data, lo, hi))

\* data[i]: TRUE when the index is in range (otherwise IndexError)
InRange(data, i) == 0 <= i /\ i < Len(data)

\* the probes of detect_type for a SIR0 blob whose sub-header has 32 bytes
SirWideProbe(data, sp) ==
    LET L == Len(data)
        pad1 == Slice(data, sp + 24, sp + 28)
        pad2 == Slice(data, sp + 28, sp + 32)
        s_img_ptr == read_le(data, sp + 12, sp + 16)
        s_pal_ptr == read_le(data, sp + 16, sp + 20)
        sprite_type == read_le(data, sp + 8, sp + 10)
        w_anim_info_ptr == read_le(data, sp, sp + 4)
        w_img_info_ptr == read_le(data, sp + 4, sp + 8)
    IN  IF /\ pad1 = <<170, 170, 170, 170>> /\ pad2 = <<170, 170, 170, 170>>
           /\ 0 < s_img_ptr /\ s_img_ptr < L /\ 0 < s_pal_ptr /\ s_pal_ptr < L
        THEN "Screen"
        ELSE IF w_anim_info_ptr < L /\ w_img_info_ptr < L
             THEN IF sprite_type \in {0, 1, 2} THEN "WAN"
                  ELSE IF sprite_type = 3 THEN "WAT" ELSE ""
             ELSE ""

\* the DPLA probe (an IndexError inside it is swallowed: probe failed)
SirDpla(data, sp) ==
    LET L == Len(data)
        first_ptr == read_le(data, sp, sp + 4)
        nb_colors == read_le(data, first_ptr, first_ptr + 2)
    IN  /\ 0 <= first_ptr /\ first_ptr < L
        /\ first_ptr + 8 <= L
        /\ \/ /\ 0 < nb_colors /\ nb_colors <= 256
              /\ first_ptr + 4 + 3 < L
              /\ data[first_ptr + 7 + 1] = 128
           \/ /\ nb_colors = 0
              /\ first_ptr + 3 < L
              /\ data[first_ptr + 2 + 1] = 4

\* the COLVEC probe
SirColvec(data, sp) ==
    LET L == Len(data)
        n == Min(4, (L - sp) \div 4)
    IN  /\ sp + 4 <= L
        /\ data[sp + 3 + 1] = 255
        /\ \A i \in 0..(n - 1) : data[sp + i * 4 + 3 + 1] = 255

\* the ZMAPPAT probe
SirZmappat(data, sp) ==
    LET L == Len(data)
        ptr_tiles == read_le(data, sp, sp + 4)
        ptr_pal == read_le(data, sp + 4, sp + 8)
    IN  /\ 0 < ptr_tiles /\ ptr_tiles < L /\ 0 < ptr_pal /\ ptr_pal < L
        /\ ptr_tiles < ptr_pal
        /\ ptr_pal - ptr_tiles = 3072

\* a faulty IMG probe: the palette pointer is compared the wrong way round
SirImg_flipped(data, sp) ==
    LET L == Len(data)
        ptr_spr == read_le(data, sp + 4, sp + 8)
        ptr_pal == read_le(data, sp + 8, sp + 12)
    IN  /\ 0 < ptr_spr /\ ptr_spr < L /\ 0 < ptr_pal /\ ptr_pal >= L

\* the IMG probe
SirImg(data, sp) ==
    LET L == Len(data)
        ptr_spr == read_le(data, sp + 4, sp + 8)
        ptr_pal == read_le(data, sp + 8, sp + 12)
    IN  /\ 0 < ptr_spr /\ ptr_spr < L /\ 0 < ptr_pal /\ ptr_pal < L

\* the probes of detect_type for a SIR0 blob whose sub-header has 16 bytes
SirNarrowProbe(data, sp) ==
    IF Slice(data, sp, sp + 5) = MAGIC_AT4PX THEN "SIR0(AT4PX)"
    ELSE IF Slice(data, sp, sp + 5) = PKDPX_MAGIC THEN "SIR0(PKDPX)"
    ELSE IF Slice(data, sp, sp + 4) = MAGIC_WTE THEN "WTE"
    ELSE IF SirDpla(data, sp) THEN "SIR0(DPLA)"
    ELSE IF SirColvec(data, sp) THEN "SIR0(COLVEC)"
    ELSE IF SirZmappat(data, sp) THEN "SIR0(ZMAPPAT)"
    ELSE IF SirImg(data, sp) THEN "SIR0(IMG)"
    ELSE ""

\* the DPL probe of detect_type
IsDpl(data) ==
    LET limit == Min(Len(data), 64)
    IN  /\ Len(data) >= 16 /\ Len(data) % 4 = 0
        /\ \A i \in 3..(limit - 1) : (i - 3) % 4 = 0 => data[i + 1] = 128

\* a faulty detect_type: the 16-byte probes run before the 32-byte probes
detect_type_narrow_first(data) ==
    LET L == Len(data)
        sp == read_le(data, 4, 8)
        wide == IF sp + 32 <= L THEN SirWideProbe(data, sp) ELSE ""
        narrow == IF sp + 16 <= L THEN SirNarrowProbe(data, sp) ELSE ""
    IN  IF L < 16 THEN "Unknown"
        ELSE IF Slice(data, 0, 4) = MAGIC_SIR0
        THEN IF narrow # "" THEN narrow
             ELSE IF wide # "" THEN wide
             ELSE "SIR0"
        ELSE IF L >= 5 /\ Slice(data, 0, 5) = MAGIC_AT4PX THEN "AT4PX"
        ELSE IF L >= 5 /\ Slice(data, 0, 5) = PKDPX_MAGIC THEN "PKDPX"
        ELSE IF L >= 5 /\ Slice(data, 0, 4) = MAGIC_WTU THEN "WTU"
        ELSE IF /\ L >= 32 /\ read_le(data, 0, 4) = 32
                /\ read_le(data, 4, 8) > 0 /\ read_le(data, 4, 8) % 16 = 0
        THEN "BGP"
        ELSE IF IsDpl(data) THEN "DPL"
        ELSE IF read_le(data, 0, 4) = 2 THEN "WBA"
        ELSE IF L \in {24576, 1604} THEN "RAW_4BPP"
        ELSE "Unknown"

detect_type(data) ==
    LET L == Len(data)
        sp == read_le(data, 4, 8)
        wide == IF sp + 32 <= L THEN SirWideProbe(data, sp) ELSE ""
        narrow == IF sp + 16 <= L THEN SirNarrowProbe(data, sp) ELSE ""
    IN  IF L < 16 THEN "Unknown"
        ELSE IF Slice(data, 0, 4) = MAGIC_SIR0
        THEN IF wide # "" THEN wide
             ELSE IF narrow # "" THEN narrow
             ELSE "SIR0"
        ELSE IF L >= 5 /\ Slice(data, 0, 5) = MAGIC_AT4PX THEN "AT4PX"
        ELSE IF L >= 5 /\ Slice(data, 0, 5) = PKDPX_MAGIC THEN "PKDPX"
        ELSE IF L >= 5 /\ Slice(data, 0, 4) = MAGIC_WTU THEN "WTU"
        ELSE IF /\ L >= 32 /\ read_le(data, 0, 4) = 32
                /\ read_le(data, 4, 8) > 0 /\ read_le(data, 4, 8) % 16 = 0
        THEN "BGP"
        ELSE IF IsDpl(data) THEN "DPL"
        ELSE IF read_le(data, 0, 4) = 2 THEN "WBA"
        ELSE IF L \in {24576, 1604} THEN "RAW_4BPP"
        ELSE "Unknown"

\* type_to_ext, the extension as character codes
type_to_ext(file_type) ==
    CASE file_type = "WAN" -> <<46, 119, 97, 110>>
      [] file_type = "WAT" -> <<46, 119, 97, 116>>
      [] file_type = "Screen" -> <<46, 115, 99, 114, 101, 101, 110>>
      [] file_type = "WBA" -> <<46, 119, 98, 97>>
      [] file_type = "SIR0" -> <<46, 98, 105, 110>>
      [] file_type \in {"AT4PX", "SIR0(AT4PX)"} -> <<46, 97, 116, 52, 112, 120>>
      [] file_type \in {"PKDPX", "SIR0(PKDPX)"} -> <<46, 112, 107, 100, 112, 120>>
      [] file_type = "WTE" -> <<46, 119, 116, 101>>
      [] file_type = "WTU" -> <<46, 119, 116, 117>>
      [] file_type = "SIR0(DPLA)" -> <<46, 100, 112, 108, 97>>
      [] file_type \in {"SIR0(IMG)", "RAW_4BPP"} -> <<46, 105, 109, 103>>
      [] file_type = "SIR0(COLVEC)" -> <<46, 99, 111, 108, 118, 101, 99>>
      [] file_type = "SIR0(ZMAPPAT)" -> <<46, 122, 109, 97, 112, 112, 97, 116>>
      [] file_type = "BGP" -> <<46, 98, 103, 112>>
      [] file_type = "DPL" -> <<46, 100, 112, 108>>
      [] OTHER -> <<46, 98, 105, 110>>

(***************************************************************************)
(* bin_pack/pkdpx.py                                                       *)
(***************************************************************************)
PX_LOOKBACK_BUFFER_SIZE == 4096

PX_MAX_MATCH_SEQLEN == 18

PX_MIN_MATCH_SEQLEN == 3

PX_NB_POSSIBLE_SEQ_LEN == 7

PKDPX_HEADER_SIZE == 20

\* "chain_count < 96" in _try_sequence
PX_MAX_CHAIN == 96

\* the largest value of length_compressed.to_bytes(2, "little"), plus one
U16_LIMIT == 65536

\* Operation.COPY_ASIS, Operation.COPY_SEQUENCE; 0..8 are the nibble kinds
COPY_ASIS == -1

COPY_NYBBLE_4TIMES == 0

COPY_SEQUENCE == 9

RECURSIVE BitOr(_, _)
\* a | b for a, b >= 0
BitOr(a, b) ==
    IF a = 0 THEN b
    ELSE IF b = 0 THEN a
    ELSE (IF a % 2 = 1 \/ b % 2 = 1 THEN 1 ELSE 0)
         + 2 * BitOr(a \div 2, b \div 2)

\* ((hi << 4) | lo) & 0xFF for any integers hi, lo
PackNibbles(hi, lo) == BitOr((16 * hi) % 256, lo % 256)

\* _compute_four_nibbles_pattern
compute_four_nibbles_pattern(idx_ctrl_flags, low_nibble) ==
    IF idx_ctrl_flags = 0
    THEN <<PackNibbles(low_nibble, low_nibble), PackNibbles(low_nibble, low_nibble)>>
    ELSE LET nibble_base == IF idx_ctrl_flags = 1 THEN low_nibble + 1
                            ELSE IF idx_ctrl_flags = 5 THEN low_nibble - 1
                            ELSE low_nibble
             ns == [k \in 0..3 |->
                      IF 1 <= idx_ctrl_flags /\ idx_ctrl_flags <= 4
                      THEN IF k = idx_ctrl_flags - 1 THEN nibble_base - 1
                           ELSE nibble_base
                      ELSE IF k = idx_ctrl_flags - 5 THEN nibble_base + 1
                           ELSE nibble_base]
         IN  <<PackNibbles(ns[0], ns[1]), PackNibbles(ns[2], ns[3])>>

\* PxDecompressor.__init__: flag_map = {f: i for i, f in enumerate(flags)};
\* a value that occurs twice keeps the later index.  -1 when absent.
flag_map_get(flags, high) ==
    LET hits == {i \in 0..(Len(flags) - 1) : flags[i + 1] = high}
    IN  IF hits = {} THEN -1 ELSE CHOOSE i \in hits : \A j \in hits : j <= i

RECURSIVE CopyRun(_, _, _)
\* output.append(output[copy_pos + i]) for i in range(copy_len)
CopyRun(output, copy_pos, copy_len) ==
    IF copy_len = 0 THEN output
    ELSE CopyRun(Append(output, output[copy_pos + 1]), copy_pos + 1, copy_len - 1)

\* the decompressor between two passes of its loops: the cursor, the
\* command byte and the bit of it that is next (shift = -1 at the head of
\* the while loop), the output so far, and how it ended when it has ended
DecoderAt(cursor, ctrl_byte, shift, output) ==
    [cursor |-> cursor, ctrl_byte |-> ctrl_byte, shift |-> shift,
     output |-> output, done |-> FALSE, ok |-> TRUE, err |-> ""]

\* the decompressor after it returned (ok) or raised err
DecoderEnd(st, ok, err) == [st EXCEPT !.done = TRUE, !.ok = ok, !.err = err]

\* one pass of the loops of PxDecompressor.decompress: the command byte is
\* read at the head of the while loop, else one operation is decoded
decode_step(data, flags, st) ==
    IF st.shift < 0
    THEN IF st.cursor < Len(data)
         THEN DecoderAt(st.cursor + 1, data[st.cursor + 1], 7, st.output)
         ELSE DecoderEnd(st, TRUE, "")
    ELSE IF st.cursor >= Len(data)
    THEN DecoderAt(st.cursor, st.ctrl_byte, -1, st.output)
    ELSE IF (st.ctrl_byte \div (2 ^ st.shift)) % 2 = 1
    THEN DecoderAt(st.cursor + 1, st.ctrl_byte, st.shift - 1,
                   Append(st.output, data[st.cursor + 1]))
    ELSE LET next_byte == data[st.cursor + 1]
             high == (next_byte \div 16) % 16
             low == next_byte % 16
             flag_idx == flag_map_get(flags, high)
         IN  IF flag_idx # -1
             THEN DecoderAt(st.cursor + 1, st.ctrl_byte, st.shift - 1,
                      st.output \o compute_four_nibbles_pattern(flag_idx, low))
             ELSE IF st.cursor + 1 >= Len(data)
             THEN DecoderEnd(st, FALSE, "IndexError")
             ELSE LET offset_byte == data[st.cursor + 2]
                      offset == -4096 + (low * 256) + offset_byte
                      copy_pos == Len(st.output) + offset
                      copy_len == high + PX_MIN_MATCH_SEQLEN
                  IN  IF copy_pos < 0
                      THEN DecoderEnd(st, FALSE, "BadOffset")
                      ELSE DecoderAt(st.cursor + 2, st.ctrl_byte, st.shift - 1,
                               CopyRun(st.output, copy_pos, copy_len))

\* what decompress() returns or raises once the decoder has ended
DecoderResult(st) ==
    [ok |-> st.ok, err |-> st.err, data |-> IF st.ok THEN st.output ELSE <<>>]

RECURSIVE DecompressFrom(_, _, _)
\* PxDecompressor.decompress from the state st on
DecompressFrom(data, flags, st) ==
    IF st.done THEN DecoderResult(st)
    ELSE DecompressFrom(data, flags, decode_step(data, flags, st))

\* PxDecompressor(compressed_data, flags).decompress()
PxDecompress(compressed_data, flags) ==
    DecompressFrom(compressed_data, flags, DecoderAt(0, 0, -1, <<>>))

\* CompOp(op_type, high, low, next_byte)
CompOp(type, high, low, next_byte) ==
    [type |-> type, high |-> high, low |-> low, next_byte |-> next_byte]

\* a faulty __init__: the allowed lengths are seeded with 0 and 0xE
NewCompressor_seed14(data) ==
    [data |-> data, size |-> Len(data), cursor |-> 0, pending |-> <<>>,
     high_nibble_lengths |-> <<0, 14>>, high_nibble_set |-> {0, 14},
     control_flags |-> Fill(0, 9), head |-> <<>>,
     prev |-> Fill(-1, Len(data))]

\* PxCompressor.__init__ and the resets at the head of compress()
NewCompressor(data) ==
    [data |-> data, size |-> Len(data), cursor |-> 0, pending |-> <<>>,
     high_nibble_lengths |-> <<0, 15>>, high_nibble_set |-> {0, 15},
     control_flags |-> Fill(0, 9), head |-> <<>>,
     prev |-> Fill(-1, Len(data))]

\* PxCompressor._hash3
hash3(c, pos) ==
    IF pos + 3 > c.size THEN -1
    ELSE c.data[pos + 1] * 65536 + c.data[pos + 2] * 256 + c.data[pos + 3]

\* PxCompressor._update_hash
update_hash(c, pos) ==
    LET h == hash3(c, pos)
    IN  IF h = -1 THEN c
        ELSE [c EXCEPT
                !.prev = IF h \in DOMAIN c.head
                         THEN [c.prev EXCEPT ![pos + 1] = c.head[h]]
                         ELSE c.prev,
                !.head = (h :> pos) @@ c.head]

RECURSIVE update_hash_range(_, _, _)
\* for i in range(advance): self._update_hash(pos + i)
update_hash_range(c, pos, advance) ==
    IF advance = 0 THEN c
    ELSE update_hash_range(update_hash(c, pos), pos + 1, advance - 1)

RECURSIVE Insert(_, _)
Insert(sorted, v) ==
    IF sorted = <<>> THEN <<v>>
    ELSE IF v <= Head(sorted) THEN <<v>> \o sorted
    ELSE <<Head(sorted)>> \o Insert(Tail(sorted), v)

RECURSIVE Sort(_)
\* list.sort()
Sort(s) == IF s = <<>> THEN <<>> ELSE Insert(Sort(Tail(s)), Head(s))

RECURSIVE ExtendMatch(_, _, _, _, _)
\* the "Extend match" loop of _try_sequence
ExtendMatch(b, match_pos, pos, limit, match_len) ==
    IF match_len < limit /\ b[match_pos + match_len + 1] = b[pos + match_len + 1]
    THEN ExtendMatch(b, match_pos, pos, limit, match_len + 1)
    ELSE match_len

RECURSIVE WalkChain(_, _, _, _, _, _, _)
\* the hash-chain walk of _try_sequence; best = [len, pos]
WalkChain(c, pos, max_match, lb_start, match_pos, chain_count, best) ==
    IF ~(match_pos >= lb_start /\ chain_count < PX_MAX_CHAIN) THEN best
    ELSE LET limit == Min(pos - match_pos, max_match)
             match_len == ExtendMatch(c.data, match_pos, pos, limit, 1)
             better == /\ limit > best.len
                       /\ c.data[match_pos + 1] = c.data[pos + 1]
                       /\ match_len > best.len
             best1 == IF better THEN [len |-> match_len, pos |-> match_pos]
                      ELSE best
         IN  IF better /\ best1.len >= PX_MAX_MATCH_SEQLEN THEN best1
             ELSE WalkChain(c, pos, max_match, lb_start,
                            c.prev[match_pos + 1], chain_count + 1, best1)

RECURSIVE LongestValid(_, _)
\* for l in self.high_nibble_lengths[::-1]: the first l with
\* l + PX_MIN_MATCH_SEQLEN <= best_len, -1 when the loop falls through
LongestValid(lengths, best_len) ==
    IF lengths = <<>> THEN -1
    ELSE IF lengths[Len(lengths)] + PX_MIN_MATCH_SEQLEN <= best_len
    THEN lengths[Len(lengths)]
    ELSE LongestValid(SubSeq(lengths, 1, Len(lengths) - 1), best_len)

\* a faulty SequenceOp: the distance is stored without its sign
SequenceOp_unsigned(high_nibble, pos, best_pos) ==
    CompOp(COPY_SEQUENCE, high_nibble, ((pos - best_pos) \div 256) % 16,
           (pos - best_pos) % 256)

\* the operation _try_sequence returns for a match found at best_pos:
\* offset = -(pos - best_pos), low_nibble = (offset >> 8) & 0xF,
\* next_byte = offset & 0xFF
SequenceOp(high_nibble, pos, best_pos) ==
    CompOp(COPY_SEQUENCE, high_nibble, ((-(pos - best_pos)) \div 256) % 16,
           (-(pos - best_pos)) % 256)

\* PxCompressor._try_sequence: [found, op, c], c with the allowed lengths
\* after the call
try_sequence(c, pos) ==
    LET max_match == Min(c.size - pos, PX_MAX_MATCH_SEQLEN)
        no == [found |-> FALSE, op |-> CompOp(COPY_ASIS, 0, 0, 0), c |-> c]
    IN  IF max_match < PX_MIN_MATCH_SEQLEN \/ pos + 3 > c.size THEN no
        ELSE LET h == hash3(c, pos)
                 lb_start == Max(pos - PX_LOOKBACK_BUFFER_SIZE, 0)
                 match_pos == IF h \in DOMAIN c.head THEN c.head[h] ELSE -1
                 best == WalkChain(c, pos, max_match, lb_start, match_pos, 0,
                                   [len |-> 0, pos |-> -1])
                 wanted == best.len - PX_MIN_MATCH_SEQLEN
                 known == wanted \in c.high_nibble_set
                 room == Len(c.high_nibble_lengths) < PX_NB_POSSIBLE_SEQ_LEN
                 high_nibble == IF known \/ room THEN wanted
                                ELSE LongestValid(c.high_nibble_lengths, best.len)
                 c1 == IF ~known /\ room
                       THEN [c EXCEPT
                               !.high_nibble_lengths =
                                   Sort(Append(c.high_nibble_lengths, wanted)),
                               !.high_nibble_set = c.high_nibble_set \cup {wanted}]
                       ELSE c
             IN  IF best.len < PX_MIN_MATCH_SEQLEN THEN no
                 ELSE IF high_nibble = -1 THEN no
                 ELSE [found |-> TRUE,
                       op |-> SequenceOp(high_nibble, pos, best.pos),
                       c |-> c1]

\* the four nibbles of data[pos], data[pos + 1]
NibblesAt(c, pos) ==
    LET b1 == c.data[pos + 1]
        b2 == c.data[pos + 2]
    IN  [k \in 0..3 |-> CASE k = 0 -> (b1 \div 16) % 16
                          [] k = 1 -> b1 % 16
                          [] k = 2 -> (b2 \div 16) % 16
                          [] k = 3 -> b2 % 16]

\* PxCompressor._try_simple_compress
try_simple_compress(c, pos) ==
    LET no == [found |-> FALSE, op |-> CompOp(COPY_ASIS, 0, 0, 0)]
    IN  IF pos + 2 > c.size THEN no
        ELSE LET n == NibblesAt(c, pos)
             IN  IF n[0] = n[1] /\ n[1] = n[2] /\ n[2] = n[3]
                 THEN [found |-> TRUE,
                       op |-> CompOp(COPY_NYBBLE_4TIMES, 0, n[3], 0)]
                 ELSE no

\* nibbles.index(v)
IndexOf(n, v) == CHOOSE i \in 0..3 : n[i] = v /\ \A j \in 0..3 : n[j] = v => i <= j

\* PxCompressor._try_complex_compress
try_complex_compress(c, pos) ==
    LET no == [found |-> FALSE, op |-> CompOp(COPY_ASIS, 0, 0, 0)]
    IN  IF pos + 2 > c.size THEN no
        ELSE LET nibbles == NibblesAt(c, pos)
                 nmin == CHOOSE v \in 0..15 :
                            (\E i \in 0..3 : nibbles[i] = v)
                            /\ \A i \in 0..3 : v <= nibbles[i]
                 nmax == CHOOSE v \in 0..15 :
                            (\E i \in 0..3 : nibbles[i] = v)
                            /\ \A i \in 0..3 : v >= nibbles[i]
                 count_min == Cardinality({i \in 0..3 : nibbles[i] = nmin})
                 count_max == Cardinality({i \in 0..3 : nibbles[i] = nmax})
             IN  IF nmax - nmin # 1 THEN no
                 ELSE IF count_min = 1
                 THEN LET idx == IndexOf(nibbles, nmin)
                      IN  [found |-> TRUE,
                           op |-> CompOp(idx + 1, 0,
                                         IF idx = 0 THEN nibbles[idx]
                                         ELSE nibbles[idx] + 1, 0)]
                 ELSE IF count_max = 1
                 THEN LET idx == IndexOf(nibbles, nmax)
                      IN  [found |-> TRUE,
                           op |-> CompOp(idx + 5, 0,
                                         IF idx = 0 THEN nibbles[idx]
                                         ELSE nibbles[idx] - 1, 0)]
                 ELSE no

\* the body of _best_operation once the three attempts at pos are known:
\* the first that succeeded is appended, else the byte as it is
ChooseOperation(c, pos, seq, simple, complex) ==
    LET b == c.data[pos + 1]
        op == IF seq.found THEN seq.op
              ELSE IF simple.found THEN simple.op
              ELSE IF complex.found THEN complex.op
              ELSE CompOp(COPY_ASIS, (b \div 16) % 16, b % 16, 0)
        advance == IF seq.found THEN seq.op.high + PX_MIN_MATCH_SEQLEN
                   ELSE IF simple.found \/ complex.found THEN 2
                   ELSE 1
    IN  [update_hash_range(seq.c, pos, advance)
            EXCEPT !.cursor = c.cursor + advance,
                   !.pending = Append(c.pending, op)]

\* PxCompressor._best_operation: the compressor after the operation at the
\* cursor was appended to pending
best_operation(c) ==
    ChooseOperation(c, c.cursor, try_sequence(c, c.cursor),
                    try_simple_compress(c, c.cursor),
                    try_complex_compress(c, c.cursor))

RECURSIVE BuildOperations(_)
\* the "Build operations" loop of compress()
BuildOperations(c) ==
    IF c.cursor < c.size THEN BuildOperations(best_operation(c)) ELSE c

RECURSIVE FillLengths(_, _)
\* the first loop of _build_ctrl_flags, from value v on
FillLengths(c, v) ==
    IF v >= 15 \/ Len(c.high_nibble_lengths) >= PX_NB_POSSIBLE_SEQ_LEN THEN c
    ELSE IF v \notin c.high_nibble_set
    THEN FillLengths([c EXCEPT
                        !.high_nibble_lengths = Append(c.high_nibble_lengths, v),
                        !.high_nibble_set = c.high_nibble_set \cup {v}], v + 1)
    ELSE FillLengths(c, v + 1)

RECURSIVE FillFlags(_, _, _)
\* the second loop of _build_ctrl_flags, from value v on
FillFlags(c, v, flag_idx) ==
    IF v >= 15 THEN c
    ELSE IF v \notin c.high_nibble_set /\ flag_idx < 9
    THEN FillFlags([c EXCEPT !.control_flags[flag_idx + 1] = v], v + 1,
                   flag_idx + 1)
    ELSE FillFlags(c, v + 1, flag_idx)

\* a faulty _build_ctrl_flags: only eight slots are filled, the ninth
\* stays zero
build_ctrl_flags_eight(c) ==
    [FillFlags(FillLengths(c, 0), 0, 0) EXCEPT !.control_flags[9] = 0]

\* PxCompressor._build_ctrl_flags
build_ctrl_flags(c) == FillFlags(FillLengths(c, 0), 0, 0)

\* a faulty output_op: a nibble pattern is written with its pattern number
\* in place of the control flag that stands for it
output_op_unflagged(c, op) ==
    IF op.type = COPY_ASIS THEN <<BitOr(16 * op.high, op.low)>>
    ELSE IF op.type = COPY_SEQUENCE
    THEN <<BitOr(16 * op.high, op.low), op.next_byte>>
    ELSE <<BitOr(16 * op.type, op.low)>>

\* PxCompressor._output_op: the bytes written for one operation
output_op(c, op) ==
    IF op.type = COPY_ASIS THEN <<BitOr(16 * op.high, op.low)>>
    ELSE IF op.type = COPY_SEQUENCE
    THEN <<BitOr(16 * op.high, op.low), op.next_byte>>
    ELSE <<BitOr(16 * c.control_flags[op.type + 1], op.low)>>

RECURSIVE CommandByte(_, _)
\* the "Build command byte" loop of _output_all over pending[i..]
CommandByte(ops, i) ==
    IF i >= Min(8, Len(ops)) THEN 0
    ELSE (IF ops[i + 1].type = COPY_ASIS THEN 2 ^ (7 - i) ELSE 0)
         + CommandByte(ops, i + 1)

RECURSIVE OutputOps(_, _, _)
\* for _ in range(8): self._output_op(self.pending.popleft())
OutputOps(c, ops, n) ==
    IF n = 0 \/ ops = <<>> THEN <<>>
    ELSE output_op(c, Head(ops)) \o OutputOps(c, Tail(ops), n - 1)

RECURSIVE output_all(_, _)
\* PxCompressor._output_all: the bytes written for the pending operations
output_all(c, pending) ==
    IF pending = <<>> THEN <<>>
    ELSE <<CommandByte(pending, 0)>> \o OutputOps(c, pending, 8)
         \o output_all(c, SubSeq(pending, 9, Len(pending)))

\* the end of PxCompressor.compress, the operations of c being built:
\* flags, payload and the operations they encode; writing past the
\* preallocated output raises IndexError
OutputResult(data, c, out) ==
    [ok |-> Len(out) <= Len(data) * 2 + (IF Len(data) % 8 # 0 THEN 1 ELSE 0),
     flags |-> c.control_flags, compressed |-> out, ops |-> c.pending,
     lengths |-> c.high_nibble_lengths]

\* self._build_ctrl_flags(); self._output_all()
OutputAll(data, c) == OutputResult(data, c, output_all(c, c.pending))

\* PxCompressor.compress
PxCompress(data) ==
    OutputAll(data, build_ctrl_flags(BuildOperations(NewCompressor(data))))

\* data[:n]: a negative n counts from the end
SliceTo(data, n) ==
    IF n >= 0 THEN Slice(data, 0, n) ELSE Slice(data, 0, Max(0, Len(data) + n))

\* compressed_data[: length_compressed - PKDPX_HEADER_SIZE] of
\* Pkdpx.decompress
PkdpxPayload(data) ==
    SliceTo(Slice(data, PKDPX_HEADER_SIZE, Len(data)),
            read_le(data, 5, 7) - PKDPX_HEADER_SIZE)

\* flags = data[7:16]
PkdpxFlags(data) == Slice(data, 7, 16)

\* the end of Pkdpx.decompress once the PxDecompressor returned or raised
PkdpxCheckSize(data, result) ==
    IF ~result.ok THEN result
    ELSE IF Len(result.data) # read_le(data, 16, 20)
    THEN [ok |-> FALSE, err |-> "SizeMismatch", data |-> <<>>]
    ELSE result

\* Pkdpx.decompress
Pkdpx_decompress(data) ==
    IF Slice(data, 0, 5) # PKDPX_MAGIC
    THEN [ok |-> FALSE, err |-> "BadMagic", data |-> <<>>]
    ELSE PkdpxCheckSize(data, PxDecompress(PkdpxPayload(data), PkdpxFlags(data)))

\* a faulty header: the container field holds the payload length alone
PkdpxHeader_payload(flags, payload_len, data_len) ==
    IF payload_len + PKDPX_HEADER_SIZE >= U16_LIMIT
    THEN [ok |-> FALSE, err |-> "OverflowError", data |-> <<>>]
    ELSE [ok |-> TRUE, err |-> "",
          data |-> PKDPX_MAGIC \o to_bytes_le(payload_len, 2)
                   \o flags \o to_bytes_le(data_len, 4)]

\* the header Pkdpx.compress puts before a payload of the given length;
\* length_compressed.to_bytes(2, "little") raises OverflowError
PkdpxHeader(flags, payload_len, data_len) ==
    LET length_compressed == payload_len + PKDPX_HEADER_SIZE
    IN  IF length_compressed >= U16_LIMIT
        THEN [ok |-> FALSE, err |-> "OverflowError", data |-> <<>>]
        ELSE [ok |-> TRUE, err |-> "",
              data |-> PKDPX_MAGIC \o to_bytes_le(length_compressed, 2)
                       \o flags \o to_bytes_le(data_len, 4)]

\* Pkdpx.compress once PxCompressor.compress returned r
PkdpxFrame(data, r) ==
    LET header == PkdpxHeader(r.flags, Len(r.compressed), Len(data))
    IN  IF ~r.ok THEN [ok |-> FALSE, err |-> "IndexError", data |-> <<>>]
        ELSE IF ~header.ok THEN header
        ELSE [ok |-> TRUE, err |-> "", data |-> header.data \o r.compressed]

\* Pkdpx.compress
Pkdpx_compress(data) == PkdpxFrame(data, PxCompress(data))

(***************************************************************************)
(* bin_pack/manager.py.  A PackManager is a record of its fields; the file *)
(* system is a function from paths to what is stored there, a directory a  *)
(* set of [name, data] files.  Every method is an operator from the        *)
(* manager and the file system to the manager and file system after the    *)
(* call, with the value returned or the error raised.                      *)
(***************************************************************************)
\* self.pack is None / self.rom is None / file_path is None / no bytes
NoPack == [none |-> TRUE]

NoRom == [none |-> TRUE]

NoPath == "<None>"

NoData == <<-1>>

NoSum == [none |-> TRUE]

NoFile == [kind |-> "none"]

PackFile(data) == [kind |-> "pack", data |-> data]

RomFile(files) == [kind |-> "rom", files |-> files]

\* hashlib.md5(data).hexdigest(), collision-free
md5(data) == [md5 |-> data]

\* KNOWN_PACK_FILES[0]
KNOWN_PACK_FILES_0 == "EFFECT/effect.bin"

\* PackManager.__init__
NewManager ==
    [pack |-> NoPack, rom |-> NoRom, pack_path |-> KNOWN_PACK_FILES_0,
     file_path |-> NoPath, modified |-> FALSE, modified_indices |-> {},
     loaded_data |-> NoData, loaded_checksum |-> NoSum,
     current_checksum |-> NoSum]

\* what a call leaves behind: manager, file system, directory, and either
\* the returned value or the error raised
Result(m, fs, dir, ret) ==
    [m |-> m, fs |-> fs, dir |-> dir, ok |-> TRUE, err |-> "", ret |-> ret]

Raise(m, fs, dir, err) ==
    [m |-> m, fs |-> fs, dir |-> dir, ok |-> FALSE, err |-> err, ret |-> 0]

\* a faulty _validate_pack: a count of exactly 10000 is rejected
validate_pack_below(data) ==
    IF Len(data) < 16 THEN "InvalidPack"
    ELSE IF Slice(data, 0, 4) # <<0, 0, 0, 0>> THEN "InvalidPack"
    ELSE IF from_bytes(Slice(data, 4, 8)) = 0
              \/ from_bytes(Slice(data, 4, 8)) >= 10000
    THEN "InvalidPack"
    ELSE ""

\* PackManager._validate_pack: the error it raises, "" when it returns
validate_pack(data) ==
    IF Len(data) < 16 THEN "InvalidPack"
    ELSE IF Slice(data, 0, 4) # <<0, 0, 0, 0>> THEN "InvalidPack"
    ELSE LET file_count == from_bytes(Slice(data, 4, 8))
         IN  IF file_count = 0 \/ file_count > 10000 THEN "InvalidPack"
             ELSE ""

\* PackManager._cache_loaded_checksum
cache_loaded_checksum(m) ==
    [m EXCEPT !.loaded_checksum =
        IF m.loaded_data # NoData THEN md5(m.loaded_data) ELSE NoSum]

\* the common tail of the loads and saves: snapshot, checksums
Snapshot(m, data) ==
    LET m1 == cache_loaded_checksum([m EXCEPT !.loaded_data = data])
    IN  [m1 EXCEPT !.current_checksum = m1.loaded_checksum]

\* PackManager.create_new
create_new(m, fs, dir) ==
    Result([m EXCEPT !.pack = EmptyPack, !.rom = NoRom, !.pack_path = "",
                     !.file_path = NoPath, !.modified = TRUE,
                     !.modified_indices = {}, !.loaded_data = NoData],
           fs, dir, 0)

\* PackManager.load_from_file
load_from_file(m, fs, dir, path) ==
    IF fs[path].kind = "none" THEN Raise(m, fs, dir, "Io")
    ELSE IF fs[path].kind = "rom" THEN Raise(m, fs, dir, "InvalidPack")
    ELSE LET data == fs[path].data
         IN  IF validate_pack(data) # "" THEN Raise(m, fs, dir, validate_pack(data))
             ELSE LET m1 == [m EXCEPT !.pack = Parse(data), !.rom = NoRom,
                                      !.pack_path = "", !.file_path = path,
                                      !.modified = FALSE,
                                      !.modified_indices = {}]
                  IN  Result(Snapshot(m1, data), fs, dir, Len(m1.pack.files))

\* PackManager.load_from_rom
load_from_rom(m, fs, dir, path, pack_path) ==
    IF fs[path].kind # "rom" THEN Raise(m, fs, dir, "Io")
    ELSE LET rom == [src |-> path, files |-> fs[path].files]
             m0 == [m EXCEPT !.rom = rom]
         IN  IF pack_path \notin DOMAIN rom.files
             THEN Raise(m0, fs, dir, "NotFoundInRom")
             ELSE LET data == rom.files[pack_path]
                  IN  IF validate_pack(data) # ""
                      THEN Raise(m0, fs, dir, validate_pack(data))
                      ELSE LET m1 == [m0 EXCEPT !.pack = Parse(data),
                                                !.pack_path = pack_path,
                                                !.file_path = path,
                                                !.modified = FALSE,
                                                !.modified_indices = {}]
                           IN  Result(Snapshot(m1, data), fs, dir,
                                      Len(m1.pack.files))

\* PackManager.switch_pack
switch_pack(m, fs, dir, pack_path) ==
    IF m.rom = NoRom THEN Raise(m, fs, dir, "NoRom")
    ELSE IF pack_path \notin DOMAIN m.rom.files
    THEN Raise(m, fs, dir, "NotFoundInRom")
    ELSE LET data == m.rom.files[pack_path]
         IN  IF validate_pack(data) # "" THEN Raise(m, fs, dir, validate_pack(data))
             ELSE LET m1 == [m EXCEPT !.pack = Parse(data),
                                      !.pack_path = pack_path,
                                      !.modified = FALSE,
                                      !.modified_indices = {}]
                  IN  Result(Snapshot(m1, data), fs, dir, Len(m1.pack.files))

\* PackManager._save_to_file
save_to_file(m, fs, dir, path) ==
    LET b == to_bytes(m.pack)
        fs1 == [fs EXCEPT ![path] = PackFile(b.data)]
    IN  IF ~b.ok THEN Raise(m, fs, dir, "EmptyEntry")
        ELSE IF m.rom = NoRom
        THEN Result(Snapshot([m EXCEPT !.file_path = path, !.modified = FALSE,
                                       !.modified_indices = {}], b.data),
                    fs1, dir, 0)
        ELSE Result(m, fs1, dir, 0)

\* a faulty _save_to_rom: the loaded snapshot is not refreshed
save_to_rom_stale(m, fs, dir, path) ==
    IF ~to_bytes(m.pack).ok THEN Raise(m, fs, dir, "EmptyEntry")
    ELSE IF m.pack_path \notin DOMAIN m.rom.files
    THEN Raise(m, fs, dir, "NotFoundInRom")
    ELSE Result([m EXCEPT !.rom.files[m.pack_path] = to_bytes(m.pack).data,
                          !.file_path = path, !.modified = FALSE,
                          !.modified_indices = {}],
                [fs EXCEPT ![path] =
                    RomFile([m.rom.files EXCEPT
                                ![m.pack_path] = to_bytes(m.pack).data])],
                dir, 0)

\* PackManager._save_to_rom
save_to_rom(m, fs, dir, path) ==
    LET b == to_bytes(m.pack)
    IN  IF ~b.ok THEN Raise(m, fs, dir, "EmptyEntry")
        ELSE IF m.pack_path \notin DOMAIN m.rom.files
        THEN Raise(m, fs, dir, "NotFoundInRom")
        ELSE LET rom == [m.rom EXCEPT !.files[m.pack_path] = b.data]
                 fs1 == [fs EXCEPT ![path] = RomFile(rom.files)]
                 m1 == [m EXCEPT !.rom = rom, !.file_path = path,
                                 !.modified = FALSE, !.modified_indices = {}]
             IN  Result(Snapshot(m1, b.data), fs1, dir, 0)

\* "not self.pack": None, or a BinPack whose __len__ is 0
PackFalsy(m) == m.pack = NoPack \/ Len(m.pack.files) = 0

\* PackManager.save
save(m, fs, dir) ==
    IF PackFalsy(m) \/ m.file_path = NoPath THEN Raise(m, fs, dir, "NoOrigin")
    ELSE IF m.rom # NoRom THEN save_to_rom(m, fs, dir, m.file_path)
    ELSE save_to_file(m, fs, dir, m.file_path)

\* PackManager.save_as
save_as(m, fs, dir, path, save_rom) ==
    IF m.pack = NoPack THEN Raise(m, fs, dir, "NoOrigin")
    ELSE IF save_rom /\ m.rom # NoRom THEN save_to_rom(m, fs, dir, path)
    ELSE save_to_file(m, fs, dir, path)

\* list index: the position of self._files[idx], -1 for an IndexError
ListIndex(n, idx) ==
    IF 0 <= idx /\ idx < n THEN idx
    ELSE IF -n <= idx /\ idx < 0 THEN n + idx
    ELSE -1

\* list.insert(idx, item): the position the item ends up at
InsertIndex(n, idx) ==
    IF idx >= 0 THEN Min(idx, n) ELSE Max(0, n + idx)

\* self._files with the entry at position k (from 0) replaced
SetItem(files, k, item) == [files EXCEPT ![k + 1] = item]

\* del self._files[k]
DelItem(files, k) == SubSeq(files, 1, k) \o SubSeq(files, k + 2, Len(files))

\* self._files.insert(k, item) for 0 <= k <= len
InsertItem(files, k, item) ==
    SubSeq(files, 1, k) \o <<item>> \o SubSeq(files, k + 1, Len(files))

\* PackManager._invalidate_current_checksum
invalidate_current_checksum(m) == [m EXCEPT !.current_checksum = NoSum]

\* PackManager.import_data
import_data(m, fs, dir, idx, data, compress) ==
    IF m.pack = NoPack THEN Raise(m, fs, dir, "NoOrigin")
    ELSE LET z == IF compress THEN Pkdpx_compress(data)
                  ELSE [ok |-> TRUE, err |-> "", data |-> data]
             k == ListIndex(Len(m.pack.files), idx)
         IN  IF ~z.ok THEN Raise(m, fs, dir, z.err)
             ELSE IF k = -1 THEN Raise(m, fs, dir, "IndexOutOfRange")
             ELSE Result(invalidate_current_checksum(
                             [m EXCEPT !.pack.files = SetItem(@, k, z.data),
                                       !.modified = TRUE,
                                       !.modified_indices = @ \cup {idx}]),
                         fs, dir, detect_type(z.data))

\* PackManager.add_data; idx is <<>> for None, <<i>> for the index i
add_data(m, fs, dir, data, idx, compress) ==
    IF m.pack = NoPack THEN Raise(m, fs, dir, "NoOrigin")
    ELSE LET z == IF compress THEN Pkdpx_compress(data)
                  ELSE [ok |-> TRUE, err |-> "", data |-> data]
             n == Len(m.pack.files)
             idx1 == IF idx = <<>> THEN n ELSE idx[1]
             files == IF idx = <<>> THEN Append(m.pack.files, z.data)
                      ELSE InsertItem(m.pack.files, InsertIndex(n, idx[1]), z.data)
         IN  IF ~z.ok THEN Raise(m, fs, dir, z.err)
             ELSE Result(invalidate_current_checksum(
                             [m EXCEPT !.pack.files = files,
                                       !.modified = TRUE,
                                       !.modified_indices = @ \cup {idx1}]),
                         fs, dir, idx1)

\* a faulty remove_entry: the mark of the removed index is dropped and the
\* marks above it are not shifted
remove_entry_noshift(m, fs, dir, idx) ==
    IF m.pack = NoPack THEN Raise(m, fs, dir, "NoOrigin")
    ELSE IF ListIndex(Len(m.pack.files), idx) = -1
    THEN Raise(m, fs, dir, "IndexOutOfRange")
    ELSE Result(invalidate_current_checksum(
                    [m EXCEPT !.pack.files =
                                  DelItem(@, ListIndex(Len(m.pack.files), idx)),
                              !.modified = TRUE,
                              !.modified_indices = @ \ {idx}]),
                fs, dir, 0)

\* PackManager.remove_entry
remove_entry(m, fs, dir, idx) ==
    IF m.pack = NoPack THEN Raise(m, fs, dir, "NoOrigin")
    ELSE LET k == ListIndex(Len(m.pack.files), idx)
         IN  IF k = -1 THEN Raise(m, fs, dir, "IndexOutOfRange")
             ELSE Result(invalidate_current_checksum(
                             [m EXCEPT !.pack.files = DelItem(@, k),
                                       !.modified = TRUE,
                                       !.modified_indices =
                                           {IF i < idx THEN i ELSE i - 1 :
                                              i \in {j \in @ : j # idx}}]),
                         fs, dir, 0)

\* a faulty get_entry_data: the stored bytes are returned as they are
get_entry_data_stored(m, fs, dir, idx, decompress) ==
    IF m.pack = NoPack THEN Raise(m, fs, dir, "NoOrigin")
    ELSE LET k == ListIndex(Len(m.pack.files), idx)
         IN  IF k = -1 THEN Raise(m, fs, dir, "IndexOutOfRange")
             ELSE Result(m, fs, dir, m.pack.files[k + 1])

\* PackManager.get_entry_data
get_entry_data(m, fs, dir, idx, decompress) ==
    IF m.pack = NoPack THEN Raise(m, fs, dir, "NoOrigin")
    ELSE LET k == ListIndex(Len(m.pack.files), idx)
             data == m.pack.files[k + 1]
             z == Pkdpx_decompress(data)
         IN  IF k = -1 THEN Raise(m, fs, dir, "IndexOutOfRange")
             ELSE IF decompress /\ detect_type(data) = "PKDPX"
             THEN IF z.ok THEN Result(m, fs, dir, z.data)
                  ELSE Raise(m, fs, dir, z.err)
             ELSE Result(m, fs, dir, data)

RECURSIVE Digits(_)
\* str(i) as character codes
Digits(i) ==
    IF i < 10 THEN <<48 + i>> ELSE Digits(i \div 10) \o <<48 + (i % 10)>>

\* f"{i:04d}"
Format04d(i) == Fill(48, Max(0, 4 - Len(Digits(i)))) \o Digits(i)

\* f"entry_{i:04d}{ext}"
EntryName(i, ext) == <<101, 110, 116, 114, 121, 95>> \o Format04d(i) \o ext

RECURSIVE StrLess(_, _)
\* a < b on str
StrLess(a, b) ==
    IF b = <<>> THEN FALSE
    ELSE IF a = <<>> THEN TRUE
    ELSE IF Head(a) # Head(b) THEN Head(a) < Head(b)
    ELSE StrLess(Tail(a), Tail(b))

RECURSIVE SortedFiles(_)
\* sorted(f for f in directory.iterdir() if f.is_file())
SortedFiles(dir) ==
    IF dir = {} THEN <<>>
    ELSE LET first == CHOOSE f \in dir :
                          \A g \in dir : g.name # f.name => StrLess(f.name, g.name)
         IN  <<first>> \o SortedFiles(dir \ {first})

\* (directory / name).write_bytes(data)
WriteFile(dir, name, data) ==
    {f \in dir : f.name # name} \cup {[name |-> name, data |-> data]}

RECURSIVE ExportFrom(_, _, _)
\* the loop of export_all over enumerate(self.pack), from index i on
ExportFrom(files, i, dir) ==
    IF i >= Len(files) THEN dir
    ELSE LET data == files[i + 1]
             etype == detect_type(data)
             ext == type_to_ext(etype)
         IN  ExportFrom(files, i + 1, WriteFile(dir, EntryName(i, ext), data))

\* PackManager.export_all
export_all(m, fs, dir) ==
    IF m.pack = NoPack THEN Raise(m, fs, dir, "NoOrigin")
    ELSE Result(m, fs, ExportFrom(m.pack.files, 0, dir), Len(m.pack.files))

\* a faulty import_all: the pack is replaced by a new one, which has no
\* recorded header length
import_all_fresh(m, fs, dir) ==
    IF m.pack = NoPack THEN Raise(m, fs, dir, "NoOrigin")
    ELSE IF dir = {} THEN Result(m, fs, dir, 0)
    ELSE Result(invalidate_current_checksum(
                    [m EXCEPT !.pack =
                                  [files |-> [k \in 1..Cardinality(dir) |->
                                                 SortedFiles(dir)[k].data],
                                   header_len |-> None],
                              !.modified = TRUE,
                              !.modified_indices = 0..(Cardinality(dir) - 1)]),
                fs, dir, Cardinality(dir))

\* a faulty import_all: the files are taken in descending filename order
import_all_descending(m, fs, dir) ==
    IF m.pack = NoPack THEN Raise(m, fs, dir, "NoOrigin")
    ELSE LET files == SortedFiles(dir)
             entries == [k \in 1..Len(files) |-> files[Len(files) + 1 - k].data]
         IN  IF files = <<>> THEN Result(m, fs, dir, 0)
             ELSE Result(invalidate_current_checksum(
                             [m EXCEPT !.pack.files = entries,
                                       !.modified = TRUE,
                                       !.modified_indices =
                                           0..(Len(entries) - 1)]),
                         fs, dir, Len(entries))

\* PackManager.import_all
import_all(m, fs, dir) ==
    IF m.pack = NoPack THEN Raise(m, fs, dir, "NoOrigin")
    ELSE LET files == SortedFiles(dir)
             entries == [k \in 1..Len(files) |-> files[k].data]
         IN  IF files = <<>> THEN Result(m, fs, dir, 0)
             ELSE Result(invalidate_current_checksum(
                             [m EXCEPT !.pack.files = entries,
                                       !.modified = TRUE,
                                       !.modified_indices =
                                           0..(Len(entries) - 1)]),
                         fs, dir, Len(entries))

\* self.manager.import_all(dir_path, compress=compress): a keyword that
\* is no parameter of the method raises TypeError before its body runs
import_all_call(m, fs, dir, keywords) ==
    IF keywords \subseteq {"directory"} THEN import_all(m, fs, dir)
    ELSE Raise(m, fs, dir, "TypeError")

\* the values _on_import_all saves before it calls create_new()
SavedState(m) ==
    [header_len |-> IF m.pack # NoPack THEN m.pack.header_len ELSE None,
     loaded_data |-> m.loaded_data, loaded_checksum |-> m.loaded_checksum,
     rom |-> m.rom, file_path |-> m.file_path, pack_path |-> m.pack_path]

\* PackExplorer._on_import_all_done: the manager after it
on_import_all_done(m, count, old) ==
    IF count = 0 THEN m
    ELSE LET m1 == IF old.header_len # None
                   THEN [m EXCEPT !.pack.header_len = old.header_len] ELSE m
         IN  [m1 EXCEPT !.loaded_data = old.loaded_data,
                        !.loaded_checksum = old.loaded_checksum,
                        !.rom = old.rom, !.file_path = old.file_path,
                        !.pack_path = old.pack_path]

\* PackManager.get_loaded_checksum ("-" is NoSum)
get_loaded_checksum(m) == m.loaded_checksum

\* PackManager.get_loaded_size
get_loaded_size(m) == IF m.loaded_data = NoData THEN 0 ELSE Len(m.loaded_data)

\* PackManager.get_current_checksum: it caches what it computes
get_current_checksum(m, fs, dir) ==
    IF m.pack = NoPack THEN Result(m, fs, dir, NoSum)
    ELSE IF m.current_checksum # NoSum THEN Result(m, fs, dir, m.current_checksum)
    ELSE LET b == to_bytes(m.pack)
         IN  IF ~b.ok THEN Raise(m, fs, dir, "EmptyEntry")
             ELSE Result([m EXCEPT !.current_checksum = md5(b.data)], fs, dir,
                         md5(b.data))

\* PackManager.get_current_size
get_current_size(m, fs, dir) ==
    IF m.pack = NoPack THEN Result(m, fs, dir, 0)
    ELSE LET b == to_bytes(m.pack)
         IN  IF ~b.ok THEN Raise(m, fs, dir, "EmptyEntry")
             ELSE Result(m, fs, dir, Len(b.data))

(***************************************************************************)
(* scripts/pack_io.py and tests/test_roundtrip.py                          *)
(***************************************************************************)
\* path.suffix.lower() == ".nds"
IsNds(path) == path \in {"game.nds", "modified.nds"}

\* export_pack after the load: the call of export_all it ends with
export_loaded(fs, dir, loaded) ==
    IF ~loaded.ok THEN loaded ELSE export_all(loaded.m, fs, dir)

\* export_pack
export_pack(fs, dir, input_path, pack_path) ==
    export_loaded(fs, dir,
                  IF IsNds(input_path)
                  THEN load_from_rom(NewManager, fs, dir, input_path, pack_path)
                  ELSE load_from_file(NewManager, fs, dir, input_path))

\* rom.setFileByName(pack_path, manager.pack.to_bytes());
\* rom.saveToFile(str(output_file))
inject_pack(fs, dir, output_file, pack_path, rom, imported, b) ==
    IF ~b.ok THEN Raise(imported.m, fs, dir, "EmptyEntry")
    ELSE Result(imported.m,
                [fs EXCEPT ![output_file] =
                    RomFile([rom EXCEPT ![pack_path] = b.data])],
                dir, imported.ret)

\* create_pack for .nds output once import_all returned
create_in_rom(fs, dir, output_file, pack_path, rom, imported) ==
    IF ~imported.ok \/ imported.ret = 0 THEN imported
    ELSE inject_pack(fs, dir, output_file, pack_path, rom, imported,
                     to_bytes(imported.m.pack))

\* create_pack for .nds output once load_from_rom returned
create_from_rom(fs, dir, output_file, pack_path, source_rom, loaded) ==
    IF ~loaded.ok THEN loaded
    ELSE create_in_rom(fs, dir, output_file, pack_path, fs[source_rom].files,
                       import_all(loaded.m, fs, dir))

\* create_pack for a standalone file once save_as returned
create_saved(dir, imported, saved) ==
    IF ~saved.ok THEN saved ELSE Result(saved.m, saved.fs, dir, imported.ret)

\* create_pack for a standalone file once import_all returned
create_standalone(fs, dir, output_file, imported) ==
    IF ~imported.ok \/ imported.ret = 0 THEN imported
    ELSE create_saved(dir, imported,
                      save_as(imported.m, fs, dir, output_file, FALSE))

\* create_pack with a source ROM and a pack path given for .nds output
create_pack(fs, dir, output_file, pack_path, source_rom) ==
    IF IsNds(output_file)
    THEN create_from_rom(fs, dir, output_file, pack_path, source_rom,
                         load_from_rom(NewManager, fs, dir, source_rom, pack_path))
    ELSE create_standalone(fs, dir, output_file,
                           import_all(create_new(NewManager, fs, dir).m, fs, dir))

\* get_pack_checksum
get_pack_checksum(fs, rom_path, pack_path) == md5(fs[rom_path].files[pack_path])

\* test_pack_roundtrip once create_pack returned
roundtrip_created(fs, rom_path, pack_path, created) ==
    IF ~created.ok THEN [ok |-> FALSE, err |-> created.err, ret |-> FALSE]
    ELSE [ok |-> TRUE, err |-> "",
          ret |-> get_pack_checksum(fs, rom_path, pack_path)
                  = get_pack_checksum(created.fs, "modified.nds", pack_path)]

\* test_pack_roundtrip once export_pack returned
roundtrip_exported(fs, work, rom_path, pack_path, exported) ==
    IF ~exported.ok THEN [ok |-> FALSE, err |-> exported.err, ret |-> FALSE]
    ELSE roundtrip_created(fs, rom_path, pack_path,
                           create_pack(work, exported.dir, "modified.nds",
                                       pack_path, "modified.nds"))

\* shutil.copy(TEST_ROM, modified_rom)
copy_rom(fs, rom_path) ==
    [p \in (DOMAIN fs) \cup {"modified.nds"} |->
        IF p = "modified.nds" THEN fs[rom_path] ELSE fs[p]]

\* test_pack_roundtrip, run on the ROM at rom_path, with a fresh export
\* directory and a copy of the ROM in the work directory
test_pack_roundtrip(fs, rom_path, pack_path) ==
    IF fs[rom_path].kind # "rom"
    THEN [ok |-> FALSE, err |-> "Io", ret |-> FALSE]
    ELSE IF pack_path \notin DOMAIN fs[rom_path].files
    THEN [ok |-> FALSE, err |-> "NotFoundInRom", ret |-> FALSE]
    ELSE roundtrip_exported(fs, copy_rom(fs, rom_path), rom_path, pack_path,
                            export_pack(copy_rom(fs, rom_path), {}, rom_path,
                                        pack_path))

(***************************************************************************)
(* Inputs: the pack buffers found on disk and in the ROM, the data handed  *)
(* to the editor, the paths and names used.                                *)
(***************************************************************************)
\* at most MaxOps calls are made on the editor
MaxOps == 3

RECURSIVE PutToc(_, _, _)
PutToc(buf, toc, i) ==
    IF i > Len(toc) THEN buf
    ELSE PutToc(write_u32(write_u32(buf, toc[i][1], 8 * i), toc[i][2], 8 * i + 4),
                toc, i + 1)

RECURSIVE PutBlobs(_, _, _)
PutBlobs(buf, toc, blobs) ==
    IF blobs = <<>> THEN buf
    ELSE PutBlobs(SetSlice(buf, Head(toc)[1], Head(toc)[1] + Len(Head(blobs)),
                           Head(blobs)),
                  Tail(toc), Tail(blobs))

\* a buffer of the given size, filled with fill, holding the top header
\* (four bytes first, the entry count), the TOC pairs <<offset, length>>,
\* eight bytes term after them and the blobs at their offsets
RawBuf(first, count, toc, term, fill, size, blobs) ==
    LET b0 == Fill(fill, size)
        b1 == SetSlice(b0, 0, 4, Fill(first, 4))
        b2 == write_u32(b1, count, 4)
        b3 == PutToc(b2, toc, 1)
        b4 == SetSlice(b3, 8 + 8 * Len(toc), 16 + 8 * Len(toc), Fill(term, 8))
    IN  PutBlobs(b4, toc, blobs)

BlobA == <<65>>

BlobB == Fill(66, 17)

BlobC == Fill(17, 16)

\* one 16-byte entry behind a 32-byte header
BufOne == RawBuf(0, 1, <<<<32, 16>>>>, 0, 255, 48, <<BlobC>>)

\* two entries of 1 and 17 bytes
BufTwo == RawBuf(0, 2, <<<<32, 1>>, <<48, 17>>>>, 0, 255, 80, <<BlobA, BlobB>>)

\* three entries behind a 48-byte header
BufThree ==
    RawBuf(0, 3, <<<<48, 1>>, <<64, 1>>, <<80, 16>>>>, 0, 255, 96,
           <<BlobA, <<67>>, BlobC>>)

\* a header longer than the entry count needs
BufHeader48 == RawBuf(0, 1, <<<<48, 1>>>>, 0, 255, 64, <<BlobA>>)

\* a first TOC offset that is no multiple of 16
BufHeader33 ==
    RawBuf(0, 2, <<<<33, 16>>, <<64, 16>>>>, 0, 255, 80, <<BlobC, BlobC>>)

\* padding of 0x00 instead of 0xFF
BufPadZero == RawBuf(0, 2, <<<<32, 1>>, <<48, 17>>>>, 0, 0, 80, <<BlobA, BlobB>>)

\* bytes after the last padded entry
BufTrailing == RawBuf(0, 1, <<<<32, 16>>>>, 0, 255, 49, <<BlobC>>)

\* the entries stored in the opposite order of the TOC
BufSwapped == RawBuf(0, 2, <<<<48, 1>>, <<32, 1>>>>, 0, 255, 64, <<<<67>>, BlobA>>)

\* an entry of length zero
BufEmptyEntry == RawBuf(0, 2, <<<<32, 1>>, <<48, 0>>>>, 0, 255, 48, <<BlobA, <<>>>>)

\* rejected by the gate: count 0, non-zero first bytes, too short, count 10001
BufCountZero == Fill(0, 16)

BufBadMagic == RawBuf(1, 1, <<<<32, 16>>>>, 0, 255, 48, <<BlobC>>)

BufShort == <<0, 0, 0, 0, 1, 0, 0, 0, 0, 0, 0, 0, 0, 0, 0>>

BufCount10001 == write_u32(Fill(0, 16), 10001, 4)

\* accepted with the largest count, every TOC entry read past the end
BufCount10000 == write_u32(Fill(0, 16), 10000, 4)

InputBuffers ==
    {BufOne, BufTwo, BufThree, BufHeader48, BufHeader33, BufPadZero,
     BufTrailing, BufSwapped, BufEmptyEntry, BufCountZero, BufBadMagic,
     BufShort, BufCount10001, BufCount10000}

\* the buffers the editor is run on
EditorBuffers == {BufTwo, BufHeader48, BufPadZero, BufEmptyEntry}

Paths == {"pack.bin", "game.nds", "out.bin"}

PackNames == {"EFFECT/effect.bin", "DUNGEON/dungeon.bin", "MONSTER/monster.bin"}

\* the ROM paths and internal names load_from_rom is called with
RomLoads ==
    {<<"game.nds", n>> : n \in PackNames} \cup {<<"pack.bin", "EFFECT/effect.bin">>}

Indices == {-1, 0, 1, 2}

\* index, data and compress flag import_data is called with
ImportInputs ==
    {<<i, <<9>>, FALSE>> : i \in Indices}
        \cup {<<0, <<>>, FALSE>>, <<0, <<9>>, TRUE>>}

\* data and index (<<>> for None) add_data is called with
AddInputs ==
    {<<<<9>>, idx>> : idx \in {<<>>, <<0>>, <<2>>, <<-1>>}} \cup {<<<<>>, <<>>>>}

\* index and decompress flag get_entry_data is called with
GetInputs == {<<i, FALSE>> : i \in Indices} \cup {<<0, TRUE>>}

\* the files of a directory the user prepared
UserDir ==
    {[name |-> <<98>>, data |-> <<2>>], [name |-> <<97>>, data |-> <<1>>],
     [name |-> <<97, 98>>, data |-> <<3>>]}

(***************************************************************************)
(* The editor as a state machine: one action per PackManager call.         *)
(*   manager  the PackManager            fs    the files at Paths          *)
(*   dir      the directory used by export_all and import_all              *)
(*   last     the most recent call: name, arguments, value or error        *)
(*   nops     the number of calls made                                     *)
(*   bp       a BinPack object on its own (see SpecPack)                   *)
(*   px       a PKDPX compression (see SpecPx)                             *)
(*   sniff    a blob handed to detect_type (see SpecSniff)                 *)
(*   touched  for each entry of the pack, whether it was replaced or       *)
(*            inserted since the last load or save (history only)          *)
(*   gui      the import-all flow of the window (see SpecGui)              *)
(***************************************************************************)
VARIABLES manager, fs, dir, last, nops, bp, px, sniff, touched, gui

vars == <<manager, fs, dir, last, nops, bp, px, sniff, touched, gui>>

NoCall == [op |-> "", args |-> <<>>, ok |-> TRUE, err |-> "", ret |-> 0]

BpIdle == [phase |-> "idle"]

PxIdle == [phase |-> "idle"]

SniffIdle == [phase |-> "idle"]

\* no import-all flow is under way and none has ended
GuiIdle == [phase |-> "idle", flows |-> 0, outcome |-> "none"]

\* the ROM image on disk: the pack B and a second file the gate rejects
InitialRom(B) ==
    RomFile([n \in {"EFFECT/effect.bin", "DUNGEON/dungeon.bin"} |->
                IF n = "EFFECT/effect.bin" THEN B ELSE BufCountZero])

InitialFs(B) ==
    [p \in Paths |-> CASE p = "pack.bin" -> PackFile(B)
                       [] p = "game.nds" -> InitialRom(B)
                       [] OTHER -> NoFile]

Init ==
    /\ manager = NewManager
    /\ \E B \in EditorBuffers : fs = InitialFs(B)
    /\ dir \in {{}, UserDir}
    /\ last = NoCall
    /\ nops = 0
    /\ touched = <<>>
    /\ gui = GuiIdle
    /\ sniff = SniffIdle
    /\ bp = BpIdle
    /\ px = PxIdle

\* the entries replaced or inserted since the last load or save, after a
\* call that left r behind: the flags follow their entries through
\* __setitem__, insert, append and __delitem__
Touched(op, args, r) ==
    LET n == Len(manager.pack.files)
        clean == [k \in 1..Len(r.m.pack.files) |-> FALSE]
    IN  IF ~r.ok \/ r.m.pack = NoPack THEN touched
        ELSE CASE op \in {"create_new", "load_from_file", "load_from_rom",
                          "switch_pack", "save", "save_as"} -> clean
               [] op = "import_data" ->
                      [touched EXCEPT ![ListIndex(n, args[1]) + 1] = TRUE]
               [] op = "add_data" ->
                      InsertItem(touched,
                                 IF args[2] = <<>> THEN n
                                 ELSE InsertIndex(n, args[2][1]), TRUE)
               [] op = "remove_entry" -> DelItem(touched, ListIndex(n, args[1]))
               [] op = "import_all" /\ r.ret > 0 ->
                      [k \in 1..Len(r.m.pack.files) |-> TRUE]
               [] OTHER -> touched

\* the state after a call that left r behind
Call(op, args, r) ==
    /\ nops < MaxOps
    /\ touched' = Touched(op, args, r)
    /\ manager' = r.m
    /\ fs' = r.fs
    /\ dir' = r.dir
    /\ last' = [op |-> op, args |-> args, ok |-> r.ok, err |-> r.err, ret |-> r.ret]
    /\ nops' = nops + 1
    /\ UNCHANGED <<bp, px, sniff, gui>>

CreateNew == Call("create_new", <<>>, create_new(manager, fs, dir))

LoadFromFile ==
    \E path \in Paths :
        Call("load_from_file", <<path>>, load_from_file(manager, fs, dir, path))

LoadFromRom ==
    \E a \in RomLoads :
        Call("load_from_rom", a, load_from_rom(manager, fs, dir, a[1], a[2]))

SwitchPack ==
    \E name \in PackNames :
        Call("switch_pack", <<name>>, switch_pack(manager, fs, dir, name))

Save == Call("save", <<>>, save(manager, fs, dir))

SaveAs ==
    \E path \in {"out.bin", "game.nds"}, as_rom \in BOOLEAN :
        Call("save_as", <<path, as_rom>>, save_as(manager, fs, dir, path, as_rom))

ImportData ==
    \E a \in ImportInputs :
        Call("import_data", a, import_data(manager, fs, dir, a[1], a[2], a[3]))

AddData ==
    \E a \in AddInputs :
        Call("add_data", a, add_data(manager, fs, dir, a[1], a[2], FALSE))

RemoveEntry ==
    \E idx \in Indices :
        Call("remove_entry", <<idx>>, remove_entry(manager, fs, dir, idx))

GetEntryData ==
    \E a \in GetInputs :
        Call("get_entry_data", a, get_entry_data(manager, fs, dir, a[1], a[2]))

ExportAll == Call("export_all", <<>>, export_all(manager, fs, dir))

ImportAll == Call("import_all", <<>>, import_all(manager, fs, dir))

GetCurrentChecksum ==
    Call("get_current_checksum", <<>>, get_current_checksum(manager, fs, dir))

GetCurrentSize ==
    Call("get_current_size", <<>>, get_current_size(manager, fs, dir))

Next ==
    \/ CreateNew
    \/ LoadFromFile
    \/ LoadFromRom
    \/ SwitchPack
    \/ Save
    \/ SaveAs
    \/ ImportData
    \/ AddData
    \/ RemoveEntry
    \/ GetEntryData
    \/ ExportAll
    \/ ImportAll
    \/ GetCurrentChecksum
    \/ GetCurrentSize

Spec == Init /\ [][Next]_vars

(***************************************************************************)
(* The BinPack class on its own: one action per method.                    *)
(*   bp.pack    the BinPack             bp.src     the buffer it was       *)
(*   bp.edited  changed since parsed               constructed from        *)
(*   bp.out     what the last to_bytes() returned, ToBytesNone before      *)
(*   bp.op, bp.ok  the last method called and whether it returned          *)
(***************************************************************************)
\* at most MaxPackOps methods are called on the BinPack
MaxPackOps == 3

ToBytesNone == [ok |-> FALSE, err |-> "not called", data |-> <<>>]

\* the buffers BinPack(data) is constructed from
PackBuffers ==
    (InputBuffers \ {BufCount10000, BufCount10001})
        \cup {<<>>, <<0, 0, 0, 0, 2, 0, 0, 0, 1, 0, 0, 0, 3>>}

\* the items handed to __setitem__, insert, append
PackItems == {<<9>>, BlobC}

PackInit ==
    /\ manager = NewManager
    /\ fs = [p \in Paths |-> NoFile]
    /\ dir = {}
    /\ last = NoCall
    /\ nops = 0
    /\ touched = <<>>
    /\ gui = GuiIdle
    /\ sniff = SniffIdle
    /\ px = PxIdle
    /\ \/ \E B \in PackBuffers :
             bp = [phase |-> "live", pack |-> Parse(B), src |-> B,
                   edited |-> FALSE, out |-> ToBytesNone, op |-> "__init__",
                   ok |-> TRUE, n |-> 0]
       \/ bp = [phase |-> "live", pack |-> EmptyPack, src |-> NoData,
                edited |-> FALSE, out |-> ToBytesNone, op |-> "__init__",
                ok |-> TRUE, n |-> 0]

\* the state after a method that changed the entries to files
PackEdit(op, files) ==
    /\ bp.phase = "live" /\ bp.n < MaxPackOps
    /\ bp' = [bp EXCEPT !.pack.files = files, !.edited = TRUE,
                        !.out = ToBytesNone, !.op = op, !.ok = TRUE,
                        !.n = @ + 1]
    /\ UNCHANGED <<manager, fs, dir, last, nops, px, sniff, touched, gui>>

\* the state after a method that raised
PackRaise(op) ==
    /\ bp.phase = "live" /\ bp.n < MaxPackOps
    /\ bp' = [bp EXCEPT !.op = op, !.ok = FALSE, !.n = @ + 1]
    /\ UNCHANGED <<manager, fs, dir, last, nops, px, sniff, touched, gui>>

\* BinPack.__setitem__
PackSetItem ==
    \E key \in Indices, value \in PackItems :
        LET k == ListIndex(Len(bp.pack.files), key)
        IN  IF k = -1 THEN PackRaise("__setitem__")
            ELSE PackEdit("__setitem__", SetItem(bp.pack.files, k, value))

\* BinPack.__delitem__
PackDelItem ==
    \E key \in Indices :
        LET k == ListIndex(Len(bp.pack.files), key)
        IN  IF k = -1 THEN PackRaise("__delitem__")
            ELSE PackEdit("__delitem__", DelItem(bp.pack.files, k))

\* BinPack.insert
PackInsert ==
    \E index \in {0, 2}, item \in PackItems :
        PackEdit("insert",
                 InsertItem(bp.pack.files,
                            InsertIndex(Len(bp.pack.files), index), item))

\* BinPack.append
PackAppend ==
    \E item \in PackItems \cup {<<>>} :
        PackEdit("append", Append(bp.pack.files, item))

\* BinPack.clear
PackClear == PackEdit("clear", <<>>)

\* BinPack.extend
PackExtend == PackEdit("extend", bp.pack.files \o <<BlobA, BlobB>>)

\* BinPack.to_bytes
PackToBytes ==
    /\ bp.phase = "live" /\ bp.n < MaxPackOps
    /\ bp' = [bp EXCEPT !.out = to_bytes(bp.pack), !.op = "to_bytes",
                        !.ok = to_bytes(bp.pack).ok, !.n = @ + 1]
    /\ UNCHANGED <<manager, fs, dir, last, nops, px, sniff, touched, gui>>

PackNext ==
    \/ PackSetItem
    \/ PackDelItem
    \/ PackInsert
    \/ PackAppend
    \/ PackClear
    \/ PackExtend
    \/ PackToBytes

SpecPack == PackInit /\ [][PackNext]_vars

(***************************************************************************)
(* The validation gate on its own: the three loading operations over every *)
(* buffer of InputBuffers, the boundary cases of the gate included.        *)
(***************************************************************************)
GateInit ==
    /\ manager = NewManager
    /\ \E B \in InputBuffers : fs = InitialFs(B)
    /\ dir = {}
    /\ last = NoCall
    /\ nops = 0
    /\ touched = <<>>
    /\ gui = GuiIdle
    /\ sniff = SniffIdle
    /\ bp = BpIdle
    /\ px = PxIdle

GateNext ==
    \/ LoadFromFile
    \/ LoadFromRom
    \/ SwitchPack

SpecGate == GateInit /\ [][GateNext]_vars

(***************************************************************************)
(* scripts/pack_io.py and tests/test_roundtrip.py: each run of a script    *)
(* builds its own PackManager, so only the files and the directory change. *)
(***************************************************************************)
ScriptBuffers == InputBuffers \ {BufCount10000, BufCount10001}

ScriptInit ==
    /\ manager = NewManager
    /\ \E B \in ScriptBuffers : fs = InitialFs(B)
    /\ dir \in {{}, UserDir}
    /\ last = NoCall
    /\ nops = 0
    /\ touched = <<>>
    /\ gui = GuiIdle
    /\ sniff = SniffIdle
    /\ bp = BpIdle
    /\ px = PxIdle

\* the state after a script run that left r behind
Run(op, args, r) ==
    /\ nops < MaxOps
    /\ fs' = r.fs
    /\ dir' = r.dir
    /\ last' = [op |-> op, args |-> args, ok |-> r.ok, err |-> r.err, ret |-> r.ret]
    /\ nops' = nops + 1
    /\ UNCHANGED <<manager, bp, px, sniff, touched, gui>>

\* pack_io.py export
ExportPack ==
    \E input_path \in {"pack.bin", "game.nds"},
       pack_path \in {"EFFECT/effect.bin", "DUNGEON/dungeon.bin"} :
        Run("export_pack", <<input_path, pack_path>>,
            export_pack(fs, dir, input_path, pack_path))

\* pack_io.py create
CreatePack ==
    \E output_file \in {"out.bin", "game.nds"} :
        Run("create_pack", <<output_file, "EFFECT/effect.bin">>,
            create_pack(fs, dir, output_file, "EFFECT/effect.bin", "game.nds"))

\* the state after a run of the round-trip test that returned r
Tested(pack_path, r) ==
    /\ nops < MaxOps
    /\ last' = [op |-> "test_pack_roundtrip", args |-> <<"game.nds", pack_path>>,
                ok |-> r.ok, err |-> r.err, ret |-> r.ret]
    /\ nops' = nops + 1
    /\ UNCHANGED <<manager, fs, dir, bp, px, sniff, touched, gui>>

\* test_roundtrip.py
TestPackRoundtrip ==
    \E pack_path \in PackNames :
        Tested(pack_path, test_pack_roundtrip(fs, "game.nds", pack_path))

ScriptNext ==
    \/ ExportPack
    \/ CreatePack
    \/ TestPackRoundtrip

SpecScript == ScriptInit /\ [][ScriptNext]_vars

(***************************************************************************)
(* The PKDPX codec on its own.  Short inputs are compressed and expanded   *)
(* byte by byte:                                                           *)
(*   px.phase  "input", "compressed", "decompressed"                       *)
(*   px.data   the input         px.r     what PxCompressor.compress made  *)
(*   px.comp   what Pkdpx.compress returned or raised                      *)
(*   px.back   what Pkdpx.decompress returned or raised for px.comp.data   *)
(* Inputs of tens of kilobytes are followed through compress() by their    *)
(* counters alone, for data on which neither a sequence nor a nibble       *)
(* pattern is ever found, so that every operation copies one byte as is:   *)
(*   px.phase    "build", "output", "framed"                               *)
(*   px.size     len(data)       px.cursor   self.cursor                   *)
(*   px.pending  len(self.pending)                                         *)
(*   px.written  self.output_cursor                                        *)
(***************************************************************************)
\* the inputs compressed byte by byte are at most MaxDataLen bytes long
MaxDataLen == 6

\* their bytes: the two-byte windows over these show every nibble pattern
DataBytes == {17, 18, 33, 34}

RECURSIVE DataOfLen(_)
DataOfLen(n) ==
    IF n = 0 THEN {<<>>}
    ELSE {Append(d, b) : d \in DataOfLen(n - 1), b \in DataBytes}

PxInputs == UNION {DataOfLen(n) : n \in 0..MaxDataLen}

\* three bytes that form no nibble pattern, and twenty of them
Marker == <<1, 35, 69>>

Marker20 ==
    <<1, 35, 69, 103, 137, 171, 205, 239, 16, 50, 84, 118, 152, 186, 220, 254,
      2, 19, 36, 53>>

\* the inputs followed through the loops of the codec pass by pass: runs
\* of 8, 17, 18, 19 and 4096 equal bytes, a repetition longer than the
\* longest match, and the marker repeated at the far end of the look-back
\* window and one byte beyond it
StepInputs ==
    {Fill(34, n) : n \in {8, PX_MAX_MATCH_SEQLEN - 1, PX_MAX_MATCH_SEQLEN,
                          PX_MAX_MATCH_SEQLEN + 1, PX_LOOKBACK_BUFFER_SIZE}}
        \cup {Marker20 \o Marker20}
        \cup {Marker \o Fill(34, PX_LOOKBACK_BUFFER_SIZE - g) \o Marker :
                 g \in {2, 3}}

\* the sizes of the inputs followed by their counters
LongSizes == {58235, 58236, 65536}

NoResult == [ok |-> FALSE, err |-> "not called", data |-> <<>>]

PxInit ==
    /\ manager = NewManager
    /\ fs = [p \in Paths |-> NoFile]
    /\ dir = {}
    /\ last = NoCall
    /\ nops = 0
    /\ touched = <<>>
    /\ gui = GuiIdle
    /\ sniff = SniffIdle
    /\ bp = BpIdle
    /\ \/ \E d \in PxInputs :
             px = [phase |-> "input", data |-> d, r |-> PxCompress(<<>>),
                   comp |-> NoResult, back |-> NoResult]
       \/ \E d \in StepInputs :
             px = [phase |-> "scan", data |-> d, c |-> NewCompressor(d),
                   r |-> PxCompress(<<>>), comp |-> NoResult,
                   st |-> DecoderAt(0, 0, -1, <<>>), back |-> NoResult]
       \/ \E n \in LongSizes :
             px = [phase |-> "build", size |-> n, cursor |-> 0, pending |-> 0,
                   written |-> 0, flags |-> Fill(0, 9), comp |-> NoResult]

\* Pkdpx.compress(px.data)
PxCompressData ==
    /\ px.phase = "input"
    /\ px' = [px EXCEPT !.phase = "compressed", !.r = PxCompress(px.data),
                        !.comp = Pkdpx_compress(px.data)]
    /\ UNCHANGED <<manager, fs, dir, last, nops, bp, sniff, touched, gui>>

\* Pkdpx.decompress of what Pkdpx.compress returned
PxDecompressData ==
    /\ px.phase = "compressed" /\ px.comp.ok
    /\ px' = [px EXCEPT !.phase = "decompressed",
                        !.back = Pkdpx_decompress(px.comp.data)]
    /\ UNCHANGED <<manager, fs, dir, last, nops, bp, sniff, touched, gui>>

\* one call of self._best_operation() in the loop of compress()
PxBestOperation ==
    /\ px.phase = "scan" /\ px.c.cursor < px.c.size
    /\ px' = [px EXCEPT !.c = best_operation(px.c)]
    /\ UNCHANGED <<manager, fs, dir, last, nops, bp, sniff, touched, gui>>

\* the end of compress() and of Pkdpx.compress: flags, output, header
PxOutputAll ==
    /\ px.phase = "scan" /\ px.c.cursor >= px.c.size
    /\ px' = [px EXCEPT
                !.phase = "packed",
                !.r = OutputAll(px.data, build_ctrl_flags(px.c)),
                !.comp = PkdpxFrame(px.data,
                                    OutputAll(px.data, build_ctrl_flags(px.c)))]
    /\ UNCHANGED <<manager, fs, dir, last, nops, bp, sniff, touched, gui>>

\* one pass of the loops of PxDecompressor.decompress over the payload of
\* px.comp.data
PxDecodeStep ==
    /\ px.phase = "packed" /\ px.comp.ok /\ ~px.st.done
    /\ Slice(px.comp.data, 0, 5) = PKDPX_MAGIC
    /\ px' = [px EXCEPT !.st = decode_step(PkdpxPayload(px.comp.data),
                                           PkdpxFlags(px.comp.data), px.st)]
    /\ UNCHANGED <<manager, fs, dir, last, nops, bp, sniff, touched, gui>>

\* the end of Pkdpx.decompress
PxDecodeEnd ==
    /\ px.phase = "packed" /\ px.st.done
    /\ px' = [px EXCEPT !.phase = "unpacked",
                        !.back = PkdpxCheckSize(px.comp.data,
                                                DecoderResult(px.st))]
    /\ UNCHANGED <<manager, fs, dir, last, nops, bp, sniff, touched, gui>>

\* one pass of "while self.cursor < self.size": up to 8 operations, each
\* COPY_ASIS and advancing the cursor by one
PxBuild ==
    /\ px.phase = "build" /\ px.cursor < px.size
    /\ px' = [px EXCEPT !.cursor = @ + Min(8, px.size - px.cursor),
                        !.pending = @ + Min(8, px.size - px.cursor)]
    /\ UNCHANGED <<manager, fs, dir, last, nops, bp, sniff, touched, gui>>

\* self._build_ctrl_flags(): no sequence was found, so the lengths stay
\* [0, 15] padded to seven values and the flags are the nine values left
PxBuildFlags ==
    /\ px.phase = "build" /\ px.cursor >= px.size
    /\ px' = [px EXCEPT !.phase = "output",
                        !.flags = build_ctrl_flags(NewCompressor(<<>>)).control_flags]
    /\ UNCHANGED <<manager, fs, dir, last, nops, bp, sniff, touched, gui>>

\* one pass of "while self.pending" in _output_all: the command byte, then
\* one byte for each of up to 8 operations
PxOutput ==
    /\ px.phase = "output" /\ px.pending > 0
    /\ px' = [px EXCEPT !.written = @ + 1 + Min(8, px.pending),
                        !.pending = @ - Min(8, px.pending)]
    /\ UNCHANGED <<manager, fs, dir, last, nops, bp, sniff, touched, gui>>

\* the rest of Pkdpx.compress: the header before the payload
PxFrame ==
    /\ px.phase = "output" /\ px.pending = 0
    /\ px' = [px EXCEPT !.phase = "framed",
                        !.comp = PkdpxHeader(px.flags, px.written, px.size)]
    /\ UNCHANGED <<manager, fs, dir, last, nops, bp, sniff, touched, gui>>

PxNext ==
    \/ PxCompressData
    \/ PxDecompressData
    \/ PxBestOperation
    \/ PxOutputAll
    \/ PxDecodeStep
    \/ PxDecodeEnd
    \/ PxBuild
    \/ PxBuildFlags
    \/ PxOutput
    \/ PxFrame

SpecPx == PxInit /\ [][PxNext]_vars

(***************************************************************************)
(* The type sniffer on its own.                                            *)
(*   sniff.data    the blob             sniff.phase  "blob" or "typed"     *)
(*   sniff.tag     what detect_type returned for sniff.data                *)
(*   sniff.padded  bytes were appended after the blob was first typed      *)
(*   sniff.first   what detect_type returned before they were appended     *)
(***************************************************************************)
RECURSIVE PutWords(_, _, _)
\* the 32-bit words written one after the other from offset at
PutWords(buf, words, at) ==
    IF words = <<>> THEN buf
    ELSE PutWords(write_u32(buf, Head(words), at), Tail(words), at + 4)

\* a blob of size bytes: "SIR0", the sub-header pointer sp, the words of
\* the sub-header at sp, zero elsewhere
SirBlob(sp, words, size) ==
    PutWords(write_u32(SetSlice(Fill(0, size), 0, 4, MAGIC_SIR0), sp, 4),
             words, sp)

\* the blob with bytes put at offset at
Patch(blob, at, bytes) == SetSlice(blob, at, at + Len(bytes), bytes)

\* the two padding words 0xAAAAAAAA of a sub-header at 16
Pads16(blob) == Patch(blob, 40, Fill(170, 8))

\* a sub-header that passes the Screen probe and the WAN probe
BlobScreenWan == Pads16(SirBlob(16, <<0, 0, 0, 1, 1>>, 48))

\* a sprite of type 3 whose image pointer lies beyond the end of the blob
BlobWatFarImage == Pads16(SirBlob(16, <<0, 0, 3, 50, 1>>, 48))

\* a 16-byte sub-header of two pointers, too short for the 32-byte probes
BlobImgShort == SirBlob(16, <<0, 1, 1>>, 32)

\* a colour table at offset 8, and two pointers that pass the IMG probe
BlobDplaImg == Patch(SirBlob(16, <<8, 1, 1>>, 32), 8, <<1, 0, 0, 0, 0, 0, 0, 128>>)

\* the blobs whose sub-header is looked at by the 32-byte probes
WideBlobs ==
    {BlobScreenWan, BlobWatFarImage,
     Pads16(SirBlob(16, <<0, 0, 0, 0, 1>>, 48)),
     Pads16(SirBlob(16, <<0, 0, 4, 1, 1>>, 48)),
     SirBlob(16, <<0, 0, 0, 1, 1>>, 48),
     SirBlob(16, <<0, 0, 1>>, 48), SirBlob(16, <<0, 0, 2>>, 48),
     SirBlob(16, <<0, 0, 3>>, 48), SirBlob(16, <<0, 0, 4>>, 48),
     SirBlob(16, <<48, 0, 0>>, 48), SirBlob(16, <<0, 48, 0>>, 48),
     SirBlob(16, <<0, 1, 5>>, 48),
     Patch(SirBlob(16, <<>>, 48), 16, MAGIC_AT4PX),
     Patch(SirBlob(16, <<>>, 48), 16, PKDPX_MAGIC),
     Patch(SirBlob(16, <<>>, 48), 16, MAGIC_WTE)}

\* the blobs whose sub-header is looked at by the 16-byte probes alone
NarrowBlobs ==
    {BlobImgShort, BlobDplaImg,
     Patch(SirBlob(16, <<>>, 32), 16, MAGIC_AT4PX),
     Patch(SirBlob(16, <<>>, 32), 16, PKDPX_MAGIC),
     Patch(SirBlob(16, <<>>, 32), 16, MAGIC_WTE),
     Patch(SirBlob(16, <<8>>, 32), 8, <<0, 1, 0, 0, 0, 0, 0, 128>>),
     Patch(SirBlob(16, <<8>>, 32), 8, <<1, 1, 0, 0, 0, 0, 0, 128>>),
     Patch(SirBlob(16, <<8>>, 32), 8, <<1, 0, 0, 0, 0, 0, 0, 127>>),
     Patch(SirBlob(16, <<8>>, 32), 8, <<0, 0, 4>>),
     Patch(SirBlob(16, <<8>>, 32), 8, <<0, 0, 5>>),
     Patch(SirBlob(16, <<25>>, 32), 25, <<0, 0, 4>>),
     Patch(SirBlob(16, <<>>, 32), 16,
           <<0, 0, 0, 255, 0, 0, 0, 255, 0, 0, 0, 255, 0, 0, 0, 255>>),
     Patch(SirBlob(16, <<>>, 32), 16,
           <<0, 0, 0, 255, 0, 0, 0, 255, 0, 0, 0, 255, 0, 0, 0, 254>>),
     Patch(SirBlob(16, <<>>, 32), 16, <<0, 0, 0, 255>>),
     SirBlob(3084, <<4, 3076, 0>>, 3100), SirBlob(3084, <<4, 3076, 1>>, 3100),
     SirBlob(3084, <<4, 3075, 1>>, 3100), SirBlob(3060, <<4, 3076, 1>>, 3076),
     Patch(SirBlob(3084, <<8, 3080, 0>>, 3100), 10, <<4>>),
     SirBlob(16, <<0, 1, 40>>, 32), SirBlob(16, <<0, 40, 1>>, 32),
     SirBlob(16, <<0, 0, 0>>, 32)}

\* SIR0 blobs no probe looks into, blobs shorter than 16 bytes, and blobs
\* without the SIR0 magic
OtherBlobs ==
    {SirBlob(1000, <<>>, 32), SirBlob(17, <<>>, 32), SirBlob(0, <<>>, 16),
     Patch(SirBlob(0, <<>>, 32), 4, Fill(255, 4)),
     SirBlob(1700, <<>>, 1604),
     Fill(0, 15), MAGIC_SIR0 \o Fill(0, 11), PKDPX_MAGIC \o Fill(0, 10),
     MAGIC_AT4PX \o Fill(0, 11), PKDPX_MAGIC \o Fill(0, 11),
     MAGIC_WTU \o Fill(0, 12), Patch(Fill(0, 16), 0, <<87, 84, 85, 1>>),
     PutWords(Fill(0, 32), <<32, 16>>, 0), PutWords(Fill(0, 32), <<32, 0>>, 0),
     PutWords(Fill(0, 32), <<32, 8>>, 0), PutWords(Fill(0, 28), <<32, 16>>, 0),
     [k \in 1..16 |-> IF k % 4 = 0 THEN 128 ELSE 0],
     [k \in 1..68 |-> IF k % 4 = 0 /\ k <= 64 THEN 128 ELSE 0],
     [k \in 1..64 |-> IF k % 4 = 0 /\ k < 64 THEN 128 ELSE 0],
     [k \in 1..18 |-> IF k % 4 = 0 THEN 128 ELSE 0],
     PutWords(Fill(0, 16), <<2>>, 0), PutWords(Fill(0, 1604), <<2>>, 0),
     PutWords(Fill(0, 17), <<3>>, 0),
     Fill(0, 1604), Fill(0, 24576), Fill(0, 1600)}

SniffBlobs == WideBlobs \cup NarrowBlobs \cup OtherBlobs

\* the bytes appended after a blob
Paddings == {<<0>>, Fill(0, 16), Fill(255, 32)}

SniffInit ==
    /\ manager = NewManager
    /\ fs = [p \in Paths |-> NoFile]
    /\ dir = {}
    /\ last = NoCall
    /\ nops = 0
    /\ touched = <<>>
    /\ gui = GuiIdle
    /\ bp = BpIdle
    /\ px = PxIdle
    /\ \E D \in SniffBlobs :
           sniff = [phase |-> "blob", data |-> D, tag |-> "",
                    padded |-> FALSE, first |-> ""]

\* detect_type(sniff.data)
DetectType ==
    /\ sniff.phase = "blob"
    /\ sniff' = [sniff EXCEPT
                    !.phase = "typed",
                    !.tag = detect_type(sniff.data),
                    !.first = IF sniff.padded THEN @ ELSE detect_type(sniff.data)]
    /\ UNCHANGED <<manager, fs, dir, last, nops, bp, px, touched, gui>>

\* bytes are appended to a blob that was typed
AppendPadding ==
    /\ sniff.phase = "typed" /\ ~sniff.padded
    /\ \E P \in Paddings :
           sniff' = [sniff EXCEPT !.phase = "blob", !.data = @ \o P,
                                   !.padded = TRUE]
    /\ UNCHANGED <<manager, fs, dir, last, nops, bp, px, touched, gui>>

SniffNext ==
    \/ DetectType
    \/ AppendPadding

SpecSniff == SniffInit /\ [][SniffNext]_vars

(***************************************************************************)
(* Pkdpx.decompress on buffers that no compressor made: containers around  *)
(* short payloads of command bytes, literals, nibble patterns and          *)
(* back-references, and what is left of them when bytes are cut off the    *)
(* end.                                                                    *)
(*   px.phase  "buffer", "decoded"                                         *)
(*   px.data   the buffer        px.back  what Pkdpx.decompress returned   *)
(*                                        or raised for it                 *)
(***************************************************************************)
\* the payloads are at most MaxPayloadLen bytes long
MaxPayloadLen == 3

\* a command byte of operations only and one that starts with a literal;
\* as operations: a nibble pattern, a back-reference to the far end of the
\* window and, followed by 255, a back-reference to the byte before
PayloadBytes == {0, 128, 144, 255}

RECURSIVE PayloadsOfLen(_)
PayloadsOfLen(n) ==
    IF n = 0 THEN {<<>>}
    ELSE {Append(d, b) : d \in PayloadsOfLen(n - 1), b \in PayloadBytes}

\* the nine control flags of the crafted containers: the high nibbles 0..8
\* are nibble patterns, 9..15 back-references
CraftedFlags == <<0, 1, 2, 3, 4, 5, 6, 7, 8>>

\* the uncompressed_len the crafted headers declare
DeclaredLens == {0, 1, 2, 19}

\* a literal followed by a back-reference of 18 bytes to it
RunOfOne == <<128, 7, 255, 255>>

\* nine control flags in which the values 0 and 8 occur twice
RepeatedFlags == <<1, 0, 0, 3, 8, 5, 6, 7, 8>>

\* a command byte of operations only, then one operand byte
OperandPayloads == {<<0, 16 * h + l>> : h \in 0..9, l \in {0, 5, 15}}

CraftedBuffers ==
    {PkdpxHeader(CraftedFlags, Len(p), n).data \o p :
        p \in (UNION {PayloadsOfLen(k) : k \in 0..MaxPayloadLen}) \cup {RunOfOne},
        n \in DeclaredLens}
        \cup {<<65, 84, 52, 80, 88>> \o Fill(0, 15)}
        \cup {PkdpxHeader(f, 2, 2).data \o p :
                 f \in {CraftedFlags, RepeatedFlags}, p \in OperandPayloads}

DecInit ==
    /\ manager = NewManager
    /\ fs = [p \in Paths |-> NoFile]
    /\ dir = {}
    /\ last = NoCall
    /\ nops = 0
    /\ touched = <<>>
    /\ gui = GuiIdle
    /\ sniff = SniffIdle
    /\ bp = BpIdle
    /\ \E c \in CraftedBuffers :
          px = [phase |-> "buffer", data |-> c, back |-> NoResult]

\* the buffer loses its last byte; the header still declares the old length
CutTail ==
    /\ px.phase = "buffer" /\ Len(px.data) > 0
    /\ px' = [px EXCEPT !.data = SubSeq(px.data, 1, Len(px.data) - 1)]
    /\ UNCHANGED <<manager, fs, dir, last, nops, bp, sniff, touched, gui>>

\* Pkdpx.decompress(px.data)
DecodeBuffer ==
    /\ px.phase = "buffer"
    /\ px' = [px EXCEPT !.phase = "decoded", !.back = Pkdpx_decompress(px.data)]
    /\ UNCHANGED <<manager, fs, dir, last, nops, bp, sniff, touched, gui>>

DecNext ==
    \/ CutTail
    \/ DecodeBuffer

SpecDec == DecInit /\ [][DecNext]_vars

(***************************************************************************)
(* pack_explorer.py: the import-all flow of the window.  The handler of    *)
(* the button runs on the main thread, the import on a thread of its own,  *)
(* and what the thread schedules with root.after runs on the main thread   *)
(* again; the buttons are disabled in between.                             *)
(*   gui.phase      "idle", "importing", "scheduled"                       *)
(*   gui.old        the values _on_import_all saved                        *)
(*   gui.scheduled  the callback handed to root.after, gui.count its       *)
(*                  argument                                               *)
(*   gui.outcome    how the last flow ended: "none", "cancelled", "done",  *)
(*                  "nofiles", "error"                                     *)
(*   gui.before     the PackManager when the flow started (history only)   *)
(*   gui.flows      the number of flows started                            *)
(***************************************************************************)
\* at most MaxFlows import-all flows are started
MaxFlows == 2

\* PackExplorer._on_import_all up to thread.start(); the dialog returns a
\* directory or nothing
OnImportAll ==
    /\ gui.phase = "idle" /\ gui.flows < MaxFlows
    /\ \E chosen \in BOOLEAN :
          LET r == create_new(manager, fs, dir)
          IN  IF ~chosen
              THEN /\ gui' = [phase |-> "idle", flows |-> gui.flows + 1,
                              outcome |-> "cancelled"]
                   /\ UNCHANGED <<manager, last, touched>>
              ELSE /\ gui' = [phase |-> "importing", flows |-> gui.flows + 1,
                              outcome |-> "none", old |-> SavedState(manager),
                              before |-> manager, scheduled |-> "", count |-> 0]
                   /\ manager' = r.m
                   /\ touched' = Touched("create_new", <<>>, r)
                   /\ last' = [op |-> "create_new", args |-> <<>>, ok |-> r.ok,
                               err |-> r.err, ret |-> r.ret]
    /\ UNCHANGED <<fs, dir, nops, bp, px, sniff>>

\* import_in_background: the call of import_all and what it schedules
ImportInBackground ==
    /\ gui.phase = "importing"
    /\ LET r == import_all_call(manager, fs, dir, {"directory", "compress"})
       IN  /\ manager' = r.m
           /\ touched' = Touched("import_all", <<>>, r)
           /\ last' = [op |-> "import_all", args |-> <<>>, ok |-> r.ok,
                       err |-> r.err, ret |-> r.ret]
           /\ gui' = [gui EXCEPT !.phase = "scheduled",
                                 !.scheduled = IF r.ok THEN "_on_import_all_done"
                                               ELSE "_on_background_error",
                                 !.count = r.ret]
    /\ UNCHANGED <<fs, dir, nops, bp, px, sniff>>

\* the callback handed to root.after runs: _on_import_all_done or
\* _on_background_error, which changes nothing of the manager
RunScheduled ==
    /\ gui.phase = "scheduled"
    /\ manager' = IF gui.scheduled = "_on_import_all_done"
                  THEN on_import_all_done(manager, gui.count, gui.old)
                  ELSE manager
    /\ gui' = [gui EXCEPT !.phase = "idle",
                          !.outcome = IF gui.scheduled = "_on_background_error"
                                      THEN "error"
                                      ELSE IF gui.count = 0 THEN "nofiles"
                                      ELSE "done"]
    /\ UNCHANGED <<fs, dir, last, nops, bp, px, sniff, touched>>

\* the buttons of the window call the manager while no flow is under way
GuiLoadFromFile == gui.phase = "idle" /\ LoadFromFile

GuiLoadFromRom == gui.phase = "idle" /\ LoadFromRom

GuiImportData == gui.phase = "idle" /\ ImportData

GuiNext ==
    \/ GuiLoadFromFile
    \/ GuiLoadFromRom
    \/ GuiImportData
    \/ OnImportAll
    \/ ImportInBackground
    \/ RunScheduled

SpecGui == Init /\ [][GuiNext]_vars

(***************************************************************************)
(* Entries imported with compress=True and read back with decompress=True. *)
(***************************************************************************)
\* the data imported compressed: nothing, one byte, a run of one byte, a
\* repeated group of three, a nibble pattern between literals
EntryData ==
    {<<>>, <<9>>, Fill(34, 19), <<65, 66, 67>> \o <<65, 66, 67>> \o <<65, 66, 67>>
                                  \o <<65, 66, 67>> \o <<65, 66, 67>> \o <<65, 66, 67>>,
     <<1, 17, 18, 2>>}

\* import_data(idx, data, compress=True)
ImportPacked ==
    \E idx \in {0, 1}, data \in EntryData :
        Call("import_data", <<idx, data, TRUE>>,
             import_data(manager, fs, dir, idx, data, TRUE))

\* get_entry_data(idx, decompress=True)
GetUnpacked ==
    \E idx \in {0, 1} :
        Call("get_entry_data", <<idx, TRUE>>,
             get_entry_data(manager, fs, dir, idx, TRUE))

EntryNext ==
    \/ CreateNew
    \/ LoadFromFile
    \/ ImportData
    \/ ImportPacked
    \/ GetUnpacked

SpecEntry == Init /\ [][EntryNext]_vars

(***************************************************************************)
(* Properties of the PKDPX codec, checked under SpecPx.                    *)
(***************************************************************************)
\* Pkdpx.compress has returned or raised
PxCompressed == px.phase \in {"compressed", "decompressed", "packed", "unpacked", "framed"}

\* Pkdpx.decompress has returned or raised for what compress returned
PxDecompressed == px.phase \in {"decompressed", "unpacked"}

\* the length of the PX payload compress() produced
PxPayloadLen == IF px.phase = "framed" THEN px.written ELSE Len(px.r.compressed)

\* C1 as stated: for every input, up to 64 KiB, Pkdpx.compress succeeds and
\* Pkdpx.decompress gives the input back
C1_RoundTripAnyData ==
    /\ PxCompressed => px.comp.ok
    /\ PxDecompressed => px.back.ok /\ px.back.data = px.data

\* C1: for every input whose PX payload and 20-byte header together stay
\* below 65536 bytes, Pkdpx.compress succeeds and Pkdpx.decompress of its
\* result returns exactly the input
C1_RoundTrip ==
    /\ PxCompressed /\ PxPayloadLen + PKDPX_HEADER_SIZE < U16_LIMIT => px.comp.ok
    /\ PxDecompressed => px.back.ok /\ px.back.data = px.data

\* an input longer than the look-back window came back from decompress
C1_Witness ==
    /\ px.phase = "unpacked"
    /\ Len(px.data) > PX_LOOKBACK_BUFFER_SIZE
    /\ px.back.ok /\ px.back.data = px.data

\* the offset a back-reference encodes, as the decompressor reads it
EncodedOffset(op) == -PX_LOOKBACK_BUFFER_SIZE + op.low * 256 + op.next_byte

\* the back-reference op, emitted when pos bytes were produced, is within
\* the window, of an allowed length, and starts inside the output
BackRefOk(op, pos) ==
    /\ -PX_LOOKBACK_BUFFER_SIZE <= EncodedOffset(op) /\ EncodedOffset(op) <= -1
    /\ op.low \in 0..15 /\ op.next_byte \in 0..255
    /\ PX_MIN_MATCH_SEQLEN <= op.high + PX_MIN_MATCH_SEQLEN
    /\ op.high + PX_MIN_MATCH_SEQLEN <= PX_MAX_MATCH_SEQLEN
    /\ pos + EncodedOffset(op) >= 0

\* the number of input bytes an operation stands for
OpLength(op) ==
    IF op.type = COPY_ASIS THEN 1
    ELSE IF op.type = COPY_SEQUENCE THEN op.high + PX_MIN_MATCH_SEQLEN
    ELSE 2

RECURSIVE BackRefsOk(_, _)
\* every back-reference among ops, the first of them emitted at pos
BackRefsOk(ops, pos) ==
    \/ ops = <<>>
    \/ /\ Head(ops).type = COPY_SEQUENCE => BackRefOk(Head(ops), pos)
       /\ BackRefsOk(Tail(ops), pos + OpLength(Head(ops)))

\* the operation the compressor appended last, and where it was emitted
LastOp == px.c.pending[Len(px.c.pending)]

LastOpPos == px.c.cursor - OpLength(LastOp)

\* C10: every back-reference the compressor emits encodes an offset in
\* [-4096, -1] and a run length in [3, 18] and starts at a position >= 0 of
\* the output so far, and decoding what it produced never raises BadOffset
C10_BackReferences ==
    /\ px.phase \in {"compressed", "decompressed"} => BackRefsOk(px.r.ops, 0)
    /\ px.phase = "scan" /\ px.c.pending # <<>> /\ LastOp.type = COPY_SEQUENCE
          => BackRefOk(LastOp, LastOpPos)
    /\ px.phase = "decompressed" => px.back.err # "BadOffset"
    /\ px.phase \in {"packed", "unpacked"} => px.st.err # "BadOffset"

\* a back-reference to the far end of the window was emitted
C10_Witness ==
    /\ px.phase = "scan" /\ px.c.pending # <<>>
    /\ LastOp.type = COPY_SEQUENCE
    /\ EncodedOffset(LastOp) = -PX_LOOKBACK_BUFFER_SIZE
    /\ LastOpPos = PX_LOOKBACK_BUFFER_SIZE

(***************************************************************************)
(* Properties of the BinPack class, checked under SpecPack.                *)
(***************************************************************************)
\* the i-th TOC pair of a buffer, i from 0
TocOffset(B, i) == read_u32(B, 8 + 8 * i)

TocLength(B, i) == read_u32(B, 12 + 8 * i)

RoundUp16(v) == ((v + 15) \div 16) * 16

\* the least header length for n entries: header, TOC, terminator, aligned
MinHeader(n) == RoundUp16(8 + 8 * n + 8)

\* to_bytes() has just returned bytes for the pack
Serialized == bp.phase = "live" /\ bp.op = "to_bytes" /\ bp.out.ok

\* at least one entry, every entry non-empty
ValidPack(p) == Len(p.files) >= 1 /\ \A i \in 1..Len(p.files) : Len(p.files[i]) >= 1

\* C2: for every valid pack p, with or without a recorded header length,
\* to_bytes(p) is accepted and parsing it yields as many entries as p has,
\* each byte-identical to the entry of p at the same index
C2_EntryPreservation ==
    bp.phase = "live" /\ bp.op = "to_bytes" /\ ValidPack(bp.pack)
        => /\ bp.out.ok
           /\ Len(Parse(bp.out.data).files) = Len(bp.pack.files)
           /\ \A i \in 1..Len(bp.pack.files) :
                  Parse(bp.out.data).files[i] = bp.pack.files[i]

\* an edited pack of several entries whose recorded header length is no
\* multiple of 16 was serialized
C2_Witness ==
    /\ Serialized /\ bp.edited
    /\ Len(bp.pack.files) >= 3
    /\ bp.pack.header_len # None /\ bp.pack.header_len % 16 # 0

\* the buffer the pack was constructed from, serialized before any edit
Reserialized == Serialized /\ bp.src # NoData /\ ~bp.edited

\* what C3 asks of B: at least one entry, every entry non-empty, a header
\* length B[8..12] that is the one to_bytes will use
C3_Precondition(B) ==
    /\ ValidPack(Parse(B))
    /\ TocOffset(B, 0) = Max(MinHeader(Len(Parse(B).files)), TocOffset(B, 0))

RECURSIVE SumRoundUp16(_, _)
\* the padded lengths of the entries i.. of the TOC of B
SumRoundUp16(B, i) ==
    IF i >= read_u32(B, 4) THEN 0
    ELSE RoundUp16(TocLength(B, i)) + SumRoundUp16(B, i + 1)

\* byte k (from 0) of B lies inside the data of one of its n entries
InEntryData(B, n, k) ==
    \E i \in 0..(n - 1) :
        TocOffset(B, i) <= k /\ k < TocOffset(B, i) + TocLength(B, i)

\* B is laid out the way to_bytes lays a pack out: zero top bytes and TOC
\* terminator, every entry at the aligned end of the one before, 0xFF in
\* every byte that is neither header, TOC, terminator nor entry data, and
\* nothing after the padded last entry
CanonicalLayout(B) ==
    LET n == read_u32(B, 4)
    IN  /\ Len(B) >= 16 /\ n >= 1 /\ Len(B) >= 16 + 8 * n
        /\ \A k \in 1..4 : B[k] = 0
        /\ \A k \in (8 + 8 * n + 1)..(16 + 8 * n) : B[k] = 0
        /\ \A i \in 1..(n - 1) :
               TocOffset(B, i)
                   = RoundUp16(TocOffset(B, i - 1) + TocLength(B, i - 1))
        /\ Len(B) = Max(TocOffset(B, 0) + SumRoundUp16(B, 0),
                        TocOffset(B, n - 1) + TocLength(B, n - 1))
        /\ \A k \in (16 + 8 * n)..(Len(B) - 1) :
               ~InEntryData(B, n, k) => B[k + 1] = 255

C4_Alignment ==
    Serialized
        => LET B == bp.out.data
               n == Len(bp.pack.files)
               end(i) == TocOffset(B, i) + TocLength(B, i)
               next(i) == IF i = n - 1 THEN Len(B) ELSE TocOffset(B, i + 1)
           IN  \A i \in 0..(n - 1) :
                   /\ TocOffset(B, i) % 16 = 0
                   /\ \A k \in end(i)..(next(i) - 1) : B[k + 1] = 255

(***************************************************************************)
(* Properties of the scripts, checked under SpecScript.                    *)
(***************************************************************************)
\* the gate of the loading operations, from the bytes of B alone
GateAccepts(B) ==
    /\ Len(B) >= 16
    /\ \A k \in 1..4 : B[k] = 0
    /\ B[7] = 0 /\ B[8] = 0
    /\ 1 <= B[5] + 256 * B[6] /\ B[5] + 256 * B[6] <= 10000

\* the round-trip test has just run on a pack of the ROM
RoundTripRun ==
    /\ last.op = "test_pack_roundtrip"
    /\ last.args[2] \in DOMAIN fs["game.nds"].files

\* the bytes B of that pack
RoundTripPack == fs["game.nds"].files[last.args[2]]

Called(ops) == nops' = nops + 1 /\ last'.op \in ops

\* C6: whenever the pack is non-empty (and to_bytes accepts it),
\* get_current_checksum() returns md5(pack.to_bytes()) of the pack in memory
C6_CurrentChecksum ==
    last.op = "get_current_checksum" /\ manager.pack # NoPack
        /\ ValidPack(manager.pack)
        => last.ok /\ last.ret = md5(to_bytes(manager.pack).data)

\* the path a save or save_as step wrote, and the pack bytes it wrote there
SavedPath == IF last'.op = "save" THEN manager.file_path ELSE last'.args[1]

Written ==
    IF fs'[SavedPath].kind = "rom"
    THEN fs'[SavedPath].files[manager.pack_path]
    ELSE fs'[SavedPath].data

\* the loaded snapshot is that of the bytes written and no edit is pending
SnapshotMatches ==
    /\ get_loaded_checksum(manager') = md5(Written)
    /\ get_loaded_size(manager') = Len(Written)
    /\ ~manager'.modified
    /\ manager'.modified_indices = {}

\* save_as(path, False) while a ROM is loaded: a standalone copy
StandaloneBesideRom ==
    last'.op = "save_as" /\ ~last'.args[2] /\ manager.rom # NoRom

C8_RemoveMarks ==
    [][Called({"remove_entry"}) /\ manager.pack # NoPack
          /\ last'.args[1] \in 0..(Len(manager.pack.files) - 1)
          => LET i == last'.args[1]
                 M == manager.modified_indices
                 old == manager.pack.files
             IN  /\ last'.ok
                 /\ manager'.pack.files
                        = [k \in 1..(Len(old) - 1) |->
                              IF k <= i THEN old[k] ELSE old[k + 1]]
                 /\ manager'.modified_indices
                        = {j \in M : j < i} \cup {j - 1 : j \in {m \in M : m > i}}]_vars

\* entry 1 of three marked entries was removed: mark 0 stays, mark 2 is 1
C8_Witness ==
    /\ last.op = "remove_entry" /\ last.ok /\ last.args = <<1>>
    /\ manager.modified_indices = {0, 1}
    /\ Len(manager.pack.files) = 2
    /\ manager.pack.files[1] = <<1>> /\ manager.pack.files[2] = <<2>>

\* the buffer a loading step was handed, when it got as far as reading one
LoadReadsBuffer ==
    \/ last'.op = "load_from_file" /\ fs[last'.args[1]].kind = "pack"
    \/ /\ last'.op = "load_from_rom" /\ fs[last'.args[1]].kind = "rom"
       /\ last'.args[2] \in DOMAIN fs[last'.args[1]].files
    \/ /\ last'.op = "switch_pack" /\ manager.rom # NoRom
       /\ last'.args[1] \in DOMAIN manager.rom.files

LoadedBuffer ==
    CASE last'.op = "load_from_file" -> fs[last'.args[1]].data
      [] last'.op = "load_from_rom" -> fs[last'.args[1]].files[last'.args[2]]
      [] last'.op = "switch_pack" -> manager.rom.files[last'.args[1]]

\* C9: load_from_file, load_from_rom and switch_pack accept a buffer B if
\* and only if len(B) >= 16, B[0..4] is zero and the entry count is in
\* (0, 10000]; any other buffer raises InvalidPack and leaves the pack of
\* the manager as it was
C9_Gate ==
    [][Called({"load_from_file", "load_from_rom", "switch_pack"})
          /\ LoadReadsBuffer
          => IF GateAccepts(LoadedBuffer)
             THEN last'.ok /\ manager'.pack # NoPack
             ELSE /\ ~last'.ok /\ last'.err = "InvalidPack"
                  /\ manager'.pack = manager.pack]_vars

\* a buffer declaring exactly 10000 entries was accepted
C9_Witness ==
    /\ last.op = "load_from_file" /\ last.ok
    /\ manager.pack # NoPack /\ Len(manager.pack.files) = 10000
    /\ manager.loaded_data = BufCount10000

(***************************************************************************)
(* Properties of the type sniffer, checked under SpecSniff.                *)
(***************************************************************************)
\* u32le(D, o) and u16le(D, o), -1 when the read leaves the blob
u32le(D, o) ==
    IF o < 0 \/ o + 4 > Len(D) THEN -1
    ELSE D[o + 1] + 256 * Min(D[o + 2] + 256 * Min(D[o + 3] + 256 * D[o + 4],
                                                   IntFold), IntFold)

u16le(D, o) == IF o < 0 \/ o + 2 > Len(D) THEN -1 ELSE D[o + 1] + 256 * D[o + 2]

\* D[o..o+Len(bytes)] == bytes
BytesAt(D, o, bytes) ==
    /\ o >= 0 /\ o + Len(bytes) <= Len(D)
    /\ \A k \in 1..Len(bytes) : D[o + k] = bytes[k]

\* v is in (0, L)
Inside(v, L) == 0 < v /\ v < L

RECURSIVE FirstMatch(_, _)
\* the tag of the first probe of the chain that matches, else otherwise
FirstMatch(chain, otherwise) ==
    IF chain = <<>> THEN otherwise
    ELSE IF Head(chain)[1] THEN Head(chain)[2]
    ELSE FirstMatch(Tail(chain), otherwise)

\* the probes of a SIR0 blob, in the order the precedence list gives them
SirChain(D) ==
    LET L == Len(D)
        sp == u32le(D, 4)
        wide == sp + 32 <= L
        narrow == sp + 16 <= L
        first == u32le(D, sp)
        nb == u16le(D, first)
        lanes == Min(4, (L - sp) \div 4)
        t == u32le(D, sp)
        p == u32le(D, sp + 4)
    IN  << <<wide /\ BytesAt(D, sp + 24, Fill(170, 8))
                 /\ Inside(u32le(D, sp + 12), L) /\ Inside(u32le(D, sp + 16), L),
             "Screen">>,
           <<wide /\ u32le(D, sp) < L /\ u32le(D, sp + 4) < L
                 /\ u16le(D, sp + 8) \in {0, 1, 2},
             "WAN">>,
           <<wide /\ u32le(D, sp) < L /\ u32le(D, sp + 4) < L
                 /\ u16le(D, sp + 8) = 3,
             "WAT">>,
           <<narrow /\ BytesAt(D, sp, MAGIC_AT4PX), "SIR0(AT4PX)">>,
           <<narrow /\ BytesAt(D, sp, PKDPX_MAGIC), "SIR0(PKDPX)">>,
           <<narrow /\ BytesAt(D, sp, MAGIC_WTE), "WTE">>,
           <<narrow /\ 0 <= first /\ first < L /\ first + 8 <= L
                 /\ \/ 0 < nb /\ nb <= 256 /\ D[first + 7 + 1] = 128
                    \/ nb = 0 /\ D[first + 2 + 1] = 4,
             "SIR0(DPLA)">>,
           <<narrow /\ D[sp + 3 + 1] = 255
                 /\ \A i \in 0..(lanes - 1) : D[sp + 4 * i + 3 + 1] = 255,
             "SIR0(COLVEC)">>,
           <<narrow /\ Inside(t, L) /\ Inside(p, L) /\ t < p /\ p - t = 3072,
             "SIR0(ZMAPPAT)">>,
           <<narrow /\ Inside(u32le(D, sp + 4), L) /\ Inside(u32le(D, sp + 8), L),
             "SIR0(IMG)">> >>

\* the probes of a blob without the SIR0 magic, in their order
PlainChain(D) ==
    LET L == Len(D)
        pal == u32le(D, 4)
    IN  << <<L >= 5 /\ BytesAt(D, 0, MAGIC_AT4PX), "AT4PX">>,
           <<L >= 5 /\ BytesAt(D, 0, PKDPX_MAGIC), "PKDPX">>,
           <<L >= 5 /\ BytesAt(D, 0, MAGIC_WTU), "WTU">>,
           <<L >= 32 /\ u32le(D, 0) = 32 /\ pal > 0 /\ pal % 16 = 0, "BGP">>,
           <<L >= 16 /\ L % 4 = 0
                 /\ \A i \in {j \in 0..(Min(L, 64) - 1) : j % 4 = 3} : D[i + 1] = 128,
             "DPL">>,
           <<u32le(D, 0) = 2, "WBA">>,
           <<L \in {24576, 1604}, "RAW_4BPP">> >>

\* the precedence list as a whole
SniffChain(D) ==
    IF Len(D) < 16 THEN "Unknown"
    ELSE IF BytesAt(D, 0, MAGIC_SIR0) THEN FirstMatch(SirChain(D), "SIR0")
    ELSE FirstMatch(PlainChain(D), "Unknown")

\* C11: for every blob D, detect_type(D) is the tag of the first probe of
\* the precedence list that matches: Unknown below 16 bytes; for a SIR0
\* blob Screen, WAN/WAT, then AT4PX, PKDPX, WTE, DPLA, COLVEC, ZMAPPAT, IMG,
\* else SIR0 and never a later probe; otherwise AT4PX, PKDPX, WTU, BGP, DPL,
\* WBA, RAW_4BPP, Unknown
C11_Precedence ==
    sniff.phase = "typed" => sniff.tag = SniffChain(sniff.data)

\* a blob that passes the DPLA probe and the IMG probe was typed SIR0(DPLA)
C11_Witness ==
    /\ sniff.phase = "typed" /\ sniff.data = BlobDplaImg
    /\ sniff.tag = "SIR0(DPLA)"
    /\ SirChain(sniff.data)[7][1] /\ SirChain(sniff.data)[10][1]

\* the tags whose classification padding is said to keep
StableTags ==
    {"WAN", "WAT", "Screen", "SIR0(AT4PX)", "SIR0(PKDPX)", "SIR0(DPLA)",
     "SIR0(COLVEC)", "SIR0(ZMAPPAT)", "SIR0(IMG)"}

\* the place of the probe that gives a tag in the precedence list
ProbeRank(tag) ==
    CASE tag = "Screen" -> 1
      [] tag \in {"WAN", "WAT"} -> 2
      [] tag = "SIR0(AT4PX)" -> 3
      [] tag = "SIR0(PKDPX)" -> 4
      [] tag = "WTE" -> 5
      [] tag = "SIR0(DPLA)" -> 6
      [] tag = "SIR0(COLVEC)" -> 7
      [] tag = "SIR0(ZMAPPAT)" -> 8
      [] tag = "SIR0(IMG)" -> 9
      [] OTHER -> 10

\* bytes were appended to a blob typed with one of StableTags, and the
\* longer blob was typed
PaddedTyped ==
    sniff.phase = "typed" /\ sniff.padded /\ sniff.first \in StableTags

\* C12 as stated: for every blob D typed WAN, WAT, Screen or SIR0(*) and
\* every P, detect_type(D + P) is the tag of D
C12_PaddingKeepsTag == PaddedTyped => sniff.tag = sniff.first

\* C12: for every blob D typed WAN, WAT, Screen or SIR0(*) and every P,
\* detect_type(D + P) is the tag of D or the tag of a probe that comes
\* before it in the precedence list
C12_PaddingKeepsOrRaises ==
    PaddedTyped
        => \/ sniff.tag = sniff.first
           \/ ProbeRank(sniff.tag) < ProbeRank(sniff.first)

\* a SIR0(PKDPX) blob of 32 bytes kept its tag with 32 more bytes, which
\* bring its sub-header within reach of the 32-byte probes
C12_Witness ==
    /\ PaddedTyped /\ sniff.first = "SIR0(PKDPX)" /\ sniff.tag = "SIR0(PKDPX)"
    /\ Len(sniff.data) = 64 /\ u32le(sniff.data, 4) = 16

(***************************************************************************)
(* Properties of the editor's errors, checked under Spec.                  *)
(***************************************************************************)
\* the step calls get_entry_data, import_data or remove_entry on a loaded
\* pack with an index outside [0, len(pack))
IndexedOutside ==
    /\ Called({"get_entry_data", "import_data", "remove_entry"})
    /\ manager.pack # NoPack
    /\ last'.args[1] \notin 0..(Len(manager.pack.files) - 1)

\* C13: for any index i outside [0, len(pack)), negative indices included,
\* get_entry_data(i), import_data(i, data) and remove_entry(i) fail with
\* an out-of-range error and leave the entries, modified, modified_indices
\* and the checksum caches as they were
C13_OutOfRange ==
    [][IndexedOutside
          => /\ ~last'.ok /\ last'.err = "IndexOutOfRange"
             /\ manager' = manager]_vars

\* the pack has no entries or an entry of length zero
HasEmpty(p) == p.files = <<>> \/ \E i \in DOMAIN p.files : p.files[i] = <<>>

\* the step is a save() or save_as() that got as far as to_bytes()
SaveSerializes ==
    /\ Called({"save", "save_as"})
    /\ manager.pack # NoPack
    /\ last'.op = "save" => manager.pack.files # <<>> /\ manager.file_path # NoPath

\* C14: to_bytes() fails with EmptyEntry exactly when the pack has no
\* entries or an entry of length zero, and gives no bytes then; a save()
\* or save_as() that hits the failure writes nothing and leaves origin,
\* modified, modified_indices and the loaded snapshot as they were
C14_EmptyEntry ==
    [][SaveSerializes
          => /\ to_bytes(manager.pack).ok <=> ~HasEmpty(manager.pack)
             /\ ~to_bytes(manager.pack).ok => to_bytes(manager.pack).data = <<>>
             /\ HasEmpty(manager.pack)
                   => /\ ~last'.ok /\ last'.err = "EmptyEntry"
                      /\ fs' = fs /\ manager' = manager
             /\ last'.err = "EmptyEntry" => HasEmpty(manager.pack)]_vars

\* a save_as of an edited pack with an empty entry failed, nothing written
C14_Witness ==
    /\ last.op = "save_as" /\ ~last.ok /\ last.err = "EmptyEntry"
    /\ manager.pack.files # <<>> /\ HasEmpty(manager.pack)
    /\ manager.modified /\ manager.modified_indices # {}
    /\ fs[last.args[1]].kind = "none"

(***************************************************************************)
(* Properties of BinPack(data), checked under SpecPack.                    *)
(***************************************************************************)
\* C15: constructing BinPack(B) from a buffer B of fewer than 16 bytes
\* fails with TooSmall and yields no pack
C15_TooSmall ==
    bp.phase = "live" /\ bp.op = "__init__" /\ bp.src # NoData /\ Len(bp.src) < 16
        => ~bp.ok

(***************************************************************************)
(* Properties of the modified marks, checked under Spec.                   *)
(***************************************************************************)
\* C16: every entry that was replaced or inserted since the last load or
\* save and is still in the pack has its current index in modified_indices
C16_MarksFollowEntries ==
    manager.pack # NoPack
        => \A k \in DOMAIN touched : touched[k] => (k - 1) \in manager.modified_indices

(***************************************************************************)
(* Properties of the origin of the pack, checked under Spec.               *)
(***************************************************************************)
\* no origin: neither a ROM nor a file path
OriginNone == manager.rom = NoRom /\ manager.file_path = NoPath

\* a standalone pack file
OriginFile == manager.rom = NoRom /\ manager.file_path # NoPath

\* a ROM pair: file_path is the path the ROM was read from or the path its
\* image was last written to, pack_path is one of its internal names
OriginRom ==
    /\ manager.rom # NoRom
    /\ manager.file_path # NoPath
    /\ \/ manager.file_path = manager.rom.src
       \/ fs[manager.file_path] = RomFile(manager.rom.files)
    /\ manager.pack_path \in DOMAIN manager.rom.files

\* C17: in every reachable state, also after a load_from_rom or switch_pack
\* that failed, the origin is none, a standalone pack file, or a ROM pair
C17_Origin == OriginNone \/ OriginFile \/ OriginRom

(***************************************************************************)
(* Properties of the PKDPX container, checked under SpecPx.                *)
(***************************************************************************)
\* the input length, the control flags and the payload length of the
\* compression px went through
PxDataLen == IF px.phase = "framed" THEN px.size ELSE Len(px.data)

PxFlags == IF px.phase = "framed" THEN px.flags ELSE px.r.flags

\* the first 20 bytes of c are the header of a container of total bytes
HeaderFields(c) ==
    /\ Len(c) >= PKDPX_HEADER_SIZE
    /\ Slice(c, 0, 5) = PKDPX_MAGIC
    /\ u16le(c, 5) = PxPayloadLen + PKDPX_HEADER_SIZE
    /\ Slice(c, 7, 16) = PxFlags /\ Len(PxFlags) = 9
    /\ u32le(c, 16) = PxDataLen

\* the buffer is the header followed by the payload
WholeBuffer(c) ==
    px.phase # "framed"
        => /\ Len(c) = Len(px.r.compressed) + PKDPX_HEADER_SIZE
           /\ SubSeq(c, PKDPX_HEADER_SIZE + 1, Len(c)) = px.r.compressed

\* C18 as stated: for every input, Pkdpx.compress returns a buffer c with
\* c[0..5] = "PKDPX", u16le(c, 5) = len(c) = len(payload) + 20, c[7..16] =
\* the 9 control flags and u32le(c, 16) = len(data)
C18_HeaderAnyData ==
    PxCompressed => px.comp.ok /\ HeaderFields(px.comp.data) /\ WholeBuffer(px.comp.data)

\* C18: for every input whose PX payload and 20-byte header together stay
\* below 65536 bytes, Pkdpx.compress returns a buffer c with c[0..5] =
\* "PKDPX", u16le(c, 5) = len(c) = len(payload) + 20, c[7..16] = the 9
\* control flags and u32le(c, 16) = len(data)
C18_Header ==
    PxCompressed /\ PxPayloadLen + PKDPX_HEADER_SIZE < U16_LIMIT
        => px.comp.ok /\ HeaderFields(px.comp.data) /\ WholeBuffer(px.comp.data)

\* the largest container: 65535 bytes in all, for an input of 58235 bytes
C18_Witness ==
    /\ px.phase = "framed" /\ px.comp.ok
    /\ u16le(px.comp.data, 5) = U16_LIMIT - 1
    /\ u32le(px.comp.data, 16) = 58235
    /\ px.written > px.size

(***************************************************************************)
(* Properties of Pkdpx.decompress, checked under SpecDec.                  *)
(***************************************************************************)
\* C19: for every byte buffer, Pkdpx.decompress either returns exactly
\* uncompressed_len bytes or fails with BadMagic, BadOffset or SizeMismatch;
\* a payload that ends in the middle of a command group, also right after
\* the first byte of a back-reference, brings no other kind of failure, and
\* a failure returns no output
C19_DeclaredFailures ==
    px.phase = "decoded"
        => /\ px.back.ok => Len(px.back.data) = read_le(px.data, 16, 20)
           /\ ~px.back.ok
                 => /\ px.back.err \in {"BadMagic", "BadOffset", "SizeMismatch"}
                    /\ px.back.data = <<>>

(***************************************************************************)
(* Properties of import_all, checked under Spec.                           *)
(***************************************************************************)
\* the number of files of the directory whose name sorts before that of f
RankInDir(f) == Cardinality({g \in dir : StrLess(g.name, f.name)})

\* the entries are the contents of the files in ascending filename order
EntriesFromDir(entries) ==
    /\ Len(entries) = Cardinality(dir)
    /\ \A f \in dir : entries[RankInDir(f) + 1] = f.data

\* C20: import_all on a directory without files returns 0 and leaves the
\* entries, modified, modified_indices and the checksum caches as they
\* were; on a directory of n > 0 files it replaces the entries by the
\* contents of the files in sorted filename order, sets modified_indices
\* to {0, .., n-1} and modified to true, and returns n
C20_ImportAll ==
    [][Called({"import_all"}) /\ manager.pack # NoPack
          => /\ last'.ok /\ last'.ret = Cardinality(dir)
             /\ dir = {} => manager' = manager
             /\ dir # {}
                   => /\ EntriesFromDir(manager'.pack.files)
                      /\ manager'.modified
                      /\ manager'.modified_indices = 0..(Cardinality(dir) - 1)]_vars

\* a loaded pack of other entries was replaced by the three files of the
\* user's directory, "a", "ab" and "b" in this order
C20_Witness ==
    /\ last.op = "import_all" /\ last.ok /\ last.ret = 3
    /\ dir = UserDir
    /\ manager.pack.files = <<<<1>>, <<3>>, <<2>>>>
    /\ manager.modified /\ manager.modified_indices = {0, 1, 2}
    /\ manager.loaded_data # NoData
    /\ Parse(manager.loaded_data).files # manager.pack.files

(***************************************************************************)
(* Properties of the allowed lengths and the control flags, checked under  *)
(* SpecPx.                                                                 *)
(***************************************************************************)
\* PxCompressor.compress has returned: its flags, operations and allowed
\* lengths are in px.r
PxBuilt == px.phase \in {"compressed", "decompressed", "packed", "unpacked"}

AllowedLengths == {px.r.lengths[i] : i \in DOMAIN px.r.lengths}

ControlFlags == {px.r.flags[i] : i \in DOMAIN px.r.flags}

\* the high nibble of the first byte written for op
EmittedHigh(op) == output_op([control_flags |-> px.r.flags], op)[1] \div 16

\* C21: after PxCompressor.compress the allowed lengths are 7 distinct
\* values with 0 and 0xF among them, the 9 control flags are the values of
\* 0..0xE absent from them in ascending order, allowed lengths and flags
\* are disjoint and cover 0..15, every sequence operation is written with
\* a high nibble of the allowed lengths and every nibble pattern with a
\* high nibble that is a control flag
C21_LengthsAndFlags ==
    PxBuilt
        => /\ Len(px.r.lengths) = 7 /\ Cardinality(AllowedLengths) = 7
           /\ {0, 15} \subseteq AllowedLengths
           /\ Len(px.r.flags) = 9
           /\ ControlFlags = (0..14) \ AllowedLengths
           /\ \A i, j \in 1..9 : i < j => px.r.flags[i] < px.r.flags[j]
           /\ AllowedLengths \cap ControlFlags = {}
           /\ AllowedLengths \cup ControlFlags = 0..15
           /\ \A k \in DOMAIN px.r.ops :
                 /\ px.r.ops[k].type = COPY_SEQUENCE
                       => EmittedHigh(px.r.ops[k]) \in AllowedLengths
                 /\ px.r.ops[k].type \notin {COPY_SEQUENCE, COPY_ASIS}
                       => EmittedHigh(px.r.ops[k]) \in ControlFlags

\* a compression that emitted a nibble pattern and a sequence whose
\* length it had to add to the allowed ones
C21_Witness ==
    /\ PxBuilt
    /\ \E k \in DOMAIN px.r.ops :
          px.r.ops[k].type = COPY_SEQUENCE /\ px.r.ops[k].high \notin {0, 15}
    /\ \E k \in DOMAIN px.r.ops :
          px.r.ops[k].type \notin {COPY_SEQUENCE, COPY_ASIS}
    /\ px.r.lengths # <<0, 15, 1, 2, 3, 4, 5>>

\* C22 as stated: only 8 values are absent from the allowed lengths, so the
\* ninth flag slot is always 0x00 and duplicates an allowed length
C22_NinthFlagZero ==
    PxBuilt
        => /\ Cardinality((0..14) \ AllowedLengths) = 8
           /\ px.r.flags[9] = 0
           /\ px.r.flags[9] \in AllowedLengths

\* C22: 9 values of 0..0xE are absent from the allowed lengths, so the
\* ninth flag slot holds the largest of them: it is never 0x00 and is no
\* allowed length
C22_NinthFlagUsed ==
    PxBuilt
        => /\ Cardinality((0..14) \ AllowedLengths) = 9
           /\ px.r.flags[9] # 0
           /\ px.r.flags[9] \notin AllowedLengths
           /\ \A v \in (0..14) \ AllowedLengths : v <= px.r.flags[9]

\* a compression whose ninth flag is a value its sequences left unused:
\* the allowed lengths hold a length a sequence added
C22_Witness ==
    /\ PxBuilt /\ px.r.flags[9] = 14
    /\ \E k \in DOMAIN px.r.ops :
          px.r.ops[k].type = COPY_SEQUENCE /\ px.r.ops[k].high \notin {0, 15}

(***************************************************************************)
(* Properties of the nibble patterns of the decompressor, checked under    *)
(* SpecDec.                                                                *)
(***************************************************************************)
\* the lowest index at which v occurs in flags, from 0
FirstIndex(flags, v) ==
    CHOOSE i \in 0..(Len(flags) - 1) :
        /\ flags[i + 1] = v
        /\ \A j \in 0..(Len(flags) - 1) : flags[j + 1] = v => i <= j

\* the buffer decoded is a whole container of two output bytes whose
\* payload is a command byte of operations and one operand byte, the high
\* nibble of which is one of the nine flags
OneFlaggedOperand ==
    /\ px.phase = "decoded"
    /\ Len(px.data) = PKDPX_HEADER_SIZE + 2
    /\ Slice(px.data, 0, 5) = PKDPX_MAGIC
    /\ read_le(px.data, 5, 7) = Len(px.data)
    /\ read_le(px.data, 16, 20) = 2
    /\ px.data[PKDPX_HEADER_SIZE + 1] < 128
    /\ \E i \in 1..9 :
          PkdpxFlags(px.data)[i] = px.data[PKDPX_HEADER_SIZE + 2] \div 16

\* C23: for any 9-byte flags array, also one in which a value occurs at
\* several indices, the decompressor treats an operand whose high nibble
\* equals some flag as the nibble pattern of the first index at which that
\* value occurs
C23_FirstMatchingFlag ==
    OneFlaggedOperand
        => /\ px.back.ok
           /\ px.back.data =
                  compute_four_nibbles_pattern(
                      FirstIndex(PkdpxFlags(px.data),
                                 px.data[PKDPX_HEADER_SIZE + 2] \div 16),
                      px.data[PKDPX_HEADER_SIZE + 2] % 16)

\* a nibble masked to 4 bits
Mask4(n) == n % 16

\* the four nibbles of the pattern P(idx, low) before they are masked
PatternNibbles(idx, low) ==
    [k \in 0..3 |->
        IF idx = 0 THEN low
        ELSE IF idx <= 4 THEN (low + 1) - (IF k = idx - 1 THEN 1 ELSE 0)
        ELSE (low - 1) + (IF k = idx - 5 THEN 1 ELSE 0)]

\* P(idx, low): (n0, n1) packed into the first byte, (n2, n3) into the second
PatternBytes(idx, low) ==
    LET n == PatternNibbles(idx, low)
    IN  <<16 * Mask4(n[0]) + Mask4(n[1]), 16 * Mask4(n[2]) + Mask4(n[3])>>

\* the operand decoded has a high nibble that is flag number idx, and the
\* nine flags are distinct
FlaggedAs(idx) ==
    /\ OneFlaggedOperand
    /\ PkdpxFlags(px.data) = CraftedFlags
    /\ px.data[PKDPX_HEADER_SIZE + 2] \div 16 = CraftedFlags[idx + 1]

\* C24: for every idx in 0..8 and low in 0..15 the two bytes the
\* decompressor emits for a nibble pattern are P(idx, low): four nibbles
\* low for idx = 0; four nibbles low + 1 with the one at position idx-1
\* decremented for idx in 1..4; four nibbles low - 1 with the one at
\* position idx-5 incremented for idx in 5..8; each masked to 4 bits
C24_NibblePattern ==
    \A idx \in 0..8 :
        FlaggedAs(idx)
            => /\ px.back.ok
               /\ px.back.data =
                      PatternBytes(idx, px.data[PKDPX_HEADER_SIZE + 2] % 16)

(***************************************************************************)
(* Properties of the sizes to_bytes computes, checked under SpecPack.      *)
(***************************************************************************)
\* max(align_up(8 + 8n + 8, 16), recorded header length if any)
ChosenHeader(p) ==
    IF p.header_len = None THEN MinHeader(Len(p.files))
    ELSE Max(MinHeader(Len(p.files)), p.header_len)

RECURSIVE PaddedSum(_, _)
\* the sum of the lengths of the entries from the i-th on, each rounded up
\* to a multiple of 16
PaddedSum(files, i) ==
    IF i > Len(files) THEN 0
    ELSE RoundUp16(Len(files[i])) + PaddedSum(files, i + 1)

\* C25: for every pack to_bytes() accepts, the first TOC offset of the
\* output is header_len = max(align_up(8 + 8n + 8, 16), recorded header
\* length if any) and the length of the output is header_len plus the sum
\* of the entry lengths rounded up to 16, also when the recorded header
\* length is no multiple of 16
C25_Sizes ==
    Serialized
        => /\ TocOffset(bp.out.data, 0) = ChosenHeader(bp.pack)
           /\ Len(bp.out.data)
                  = ChosenHeader(bp.pack) + PaddedSum(bp.pack.files, 1)

(***************************************************************************)
(* Properties of the import-all flow of the window, checked under SpecGui. *)
(***************************************************************************)
\* a flow has run to its end: the scheduled callback has returned
FlowEnded == gui.phase = "idle" /\ gui.outcome \in {"done", "nofiles", "error"}

\* the recorded header length of the pack of m, None without a pack
RecordedHeader(m) == IF m.pack # NoPack THEN m.pack.header_len ELSE None

\* loaded bytes, loaded MD5 and origin of the manager are those of m
SameSnapshotAndOrigin(m) ==
    /\ manager.loaded_data = m.loaded_data
    /\ manager.loaded_checksum = m.loaded_checksum
    /\ manager.rom = m.rom
    /\ manager.file_path = m.file_path
    /\ manager.pack_path = m.pack_path

\* C26: after the import-all flow of the window has completed on a
\* directory with at least one file, the loaded snapshot, the origin and
\* the recorded header length of the pack are what they were before the
\* flow started, modified_indices holds every index of the new pack and
\* modified is true
C26_FlowRestores ==
    FlowEnded /\ dir # {}
        => /\ SameSnapshotAndOrigin(gui.before)
           /\ RecordedHeader(manager) = RecordedHeader(gui.before)
           /\ manager.pack # NoPack
           /\ \A j \in 0..(Len(manager.pack.files) - 1) :
                 j \in manager.modified_indices
           /\ manager.modified

\* entries, origin, loaded snapshot and modified state of the manager are
\* those of m
NothingLost(m) ==
    /\ manager.pack = m.pack
    /\ SameSnapshotAndOrigin(m)
    /\ manager.modified = m.modified
    /\ manager.modified_indices = m.modified_indices

\* C30: when the import-all flow of the window finds no files in the
\* directory or the background import fails, the entries of the pack, the
\* origin, the loaded snapshot and the modified state are what they were
\* before the flow started
C30_FailedFlowKeepsPack ==
    FlowEnded /\ gui.outcome \in {"nofiles", "error"} => NothingLost(gui.before)

(***************************************************************************)
(* Further properties of the editor, checked under Spec.                   *)
(***************************************************************************)
\* C27: in every reachable state every member of modified_indices is a
\* valid index of the current pack, 0 <= j < len(pack)
C27_MarksInRange ==
    manager.pack # NoPack
        => \A j \in manager.modified_indices :
              0 <= j /\ j < Len(manager.pack.files)

\* C28: in every reachable state get_loaded_checksum() and
\* get_loaded_size() describe the same snapshot: the checksum is the MD5 of
\* the loaded bytes whose length get_loaded_size() reports, or both are
\* absent ("-" and 0)
C28_LoadedPair ==
    \/ /\ get_loaded_checksum(manager) = NoSum
       /\ get_loaded_size(manager) = 0
    \/ /\ manager.loaded_data # NoData
       /\ get_loaded_checksum(manager) = md5(manager.loaded_data)
       /\ get_loaded_size(manager) = Len(manager.loaded_data)

(***************************************************************************)
(* Properties of compressed entries, checked under SpecEntry.              *)
(***************************************************************************)
\* the step calls op on an index of the pack with the flag set
FlaggedCall(op, flag) ==
    /\ Called({op})
    /\ manager.pack # NoPack
    /\ last'.args[flag] = TRUE
    /\ last'.args[1] \in 0..(Len(manager.pack.files) - 1)

\* C29: for every data whose compressed form can be framed,
\* import_data(i, data, compress=True) stores an entry that detect_type
\* classifies as PKDPX and returns "PKDPX", and a following
\* get_entry_data(i, decompress=True) returns exactly data; for an entry
\* whose tag is not PKDPX, get_entry_data(i, decompress=True) returns the
\* stored bytes unchanged
C29_PackedEntry ==
    [][/\ FlaggedCall("import_data", 3) /\ Pkdpx_compress(last'.args[2]).ok
          => /\ last'.ok /\ last'.ret = "PKDPX"
             /\ detect_type(manager'.pack.files[last'.args[1] + 1]) = "PKDPX"
       /\ /\ FlaggedCall("get_entry_data", 2)
          /\ last.op = "import_data" /\ last.ok /\ last.args[3] = TRUE
          /\ last.args[1] = last'.args[1]
          => last'.ok /\ last'.ret = last.args[2]
       /\ /\ FlaggedCall("get_entry_data", 2)
          /\ detect_type(manager.pack.files[last'.args[1] + 1]) # "PKDPX"
          => last'.ok /\ last'.ret = manager.pack.files[last'.args[1] + 1]]_vars

\* eighteen bytes of a repeated group came back from an entry that stores
\* them in a shorter PKDPX container
C29_Witness ==
    /\ last.op = "get_entry_data" /\ last.ok /\ last.args = <<1, TRUE>>
    /\ Len(last.ret) = 18 /\ last.ret[4] = 65
    /\ detect_type(manager.pack.files[2]) = "PKDPX"
    /\ Len(manager.pack.files[2]) < PKDPX_HEADER_SIZE + 18
    /\ manager.modified_indices = {1}

====
